---- MODULE Spec2Model ----
(***************************************************************************)
(* Verification model of PolyStore's streaming core.                       *)
(*                                                                         *)
(*   SpecEngine  - DebouncedBatchEngine (receivers/core/batch_engine.py):  *)
(*                 caller threads, threading.Timer threads, one lock and   *)
(*                 a discrete clock.                                       *)
(*   SpecBackend - FijiStreamingBackend / NapariStreamingBackend            *)
(*                 save_batch and cleanup (fiji_stream.py,                 *)
(*                 napari_stream.py), the shared buffers they create, the  *)
(*                 message queue, the receiver and the ack path.           *)
(*   SpecFijiBatch - FijiBatchProcessor (receivers/fiji/                   *)
(*                 fiji_batch_processor.py): add_items, its debounce timer *)
(*                 and _process_pending_batch.                             *)
(*   SpecProjection - group_items_by_component_modes (receivers/core/      *)
(*                 window_projection.py) over batches of items.            *)
(*   SpecLayerKey - build_layer_key (receivers/napari/layer_key.py).       *)
(*   SpecEngineLive - the engine without explicit flush() calls, with the  *)
(*                 fairness of timers and threads, for delivery.           *)
(***************************************************************************)
EXTENDS Integers, Sequences, FiniteSets, TLC

(***************************************************************************)
(* Bounds of the model                                                     *)
(***************************************************************************)
\* total number of items handed to enqueue over a run
MaxItems == 3
\* last instant of the discrete clock
MaxTime == 4

\* length of the item list handed to group_items_by_component_modes
MaxGroupItems == 3
MaxGroupCalls == 3
MaxRoiItems == 3

\* number of save_batch calls over a run
MaxCalls == 2
\* lengths of the data_list handed to one save_batch call
BatchSizes == {0, 1, 2}
LargestBatch == CHOOSE n \in BatchSizes : \A m \in BatchSizes : m <= n

\* the receiver thread that calls enqueue(), and a thread that calls flush();
\* enqueue's critical section is one step, so a second enqueuing thread
\* would add no interleaving that one thread calling twice does not have
EnqueueThreads == {1}
FlushThreads == {2}
CallerThreads == EnqueueThreads \cup FlushThreads
\* one threading.Timer object (and its thread) per enqueue call at most
TimerIds == 1..MaxItems
TimerThread(k) == 10 + k
TimerThreads == {TimerThread(k) : k \in TimerIds}
Threads == CallerThreads \cup TimerThreads
\* constructor arguments tried: debounce_delay_ms and max_debounce_wait_ms
DelayChoices == {2}
MaxWaitChoices == {2, 3}

\* Python's None for a thread / a timer / a time
NoThread == 0
NoTimer == 0
NoTime == -1
\* the empty context {} of a fresh or drained engine
NoContext == 0
\* batch_size=None: wait for all items
NoBatchSize == 0
\* constructor argument tried: batch_size
BatchSizeChoices == {NoBatchSize, 2, 3}
\* the receiver thread that calls add_items
AddThreads == {1}
FbpThreads == AddThreads \cup TimerThreads

VARIABLES
  \* ---- DebouncedBatchEngine fields ----
  debounce_delay,       \* self._debounce_delay
  max_wait,             \* self._max_wait
  lock,                 \* holder of self._lock, or NoThread
  timer,                \* self._timer: a timer id, or NoTimer
  first_enqueue_time,   \* self._first_enqueue_time, or NoTime
  last_enqueue_time,    \* time.time() of the most recent enqueue
  pending_items,        \* self._pending_items
  \* ---- threading.Timer objects ----
  timerState,           \* "unused" | "live" | "cancelled" | "fired"
  timerDeadline,        \* instant at which a live timer fires
  \* ---- threads ----
  now,                  \* time.time()
  pc,                   \* position of every thread
  inEnqueue,            \* the thread is inside an enqueue() call
  drained,              \* items returned by _drain_locked to the thread
  issued,               \* number of items created so far
  \* ---- history ----
  S,                    \* items in the order they were appended to pending
  drainedLog,           \* batches in drain order, with the age of the batch
  processedLog,         \* batches in the order process_fn received them
  pending_context,      \* self._pending_context
  drainedContext,       \* context returned by _drain_locked to the thread
  contextLog,           \* contexts in the order process_fn received them
  raisedBatches,        \* <<first item, thread>> of every batch whose
                        \* process_fn raised
  propagated,           \* threads whose flush() let an exception escape
  \* ---- streaming backend (producer process) ----
  backend,              \* "fiji" | "napari": the class of the backend object
  ppc,                  \* position of the producer thread in save_batch
  nItems,               \* len(data_list) of the call in progress
  image_ids,            \* image_ids of the call in progress
  batch_images,         \* batch_images: the buffer of every prepared item
  shared_memory_blocks, \* keys of self._shared_memory_blocks
  prodHandle,           \* producer's SharedMemory handle: none | open | closed
  outcome,              \* how the last call ended: none | ok | busy | raised
  callBuffers,          \* buffers created by the call in progress / last call
  calls,                \* number of save_batch calls started
  nextId,               \* number of item ids generated
  cleaned,              \* cleanup() has run
  \* ---- queue tracker (producer process) ----
  registered,           \* ids given to register_sent
  acked,                \* ids given to mark_ack
  ackedUnregistered,    \* ids whose mark_ack ran before their register_sent
  \* ---- operating system, transport, receiver ----
  shmName,              \* name of each buffer: none | linked | unlinked
  prodUnlinks,          \* unlink() calls of the producer, per buffer
  recvUnlinks,          \* unlink() calls of the receiver, per buffer
  mq,                   \* batch messages handed to the transport, in flight
  sentItems,            \* buffers whose batch was handed to the transport
  receivedItems,        \* ids of the batches the receiver got
  dest,                 \* "host:port" of the call in progress / last call
  returned,             \* what the caller of the last save_batch got:
                        \* none | None | the kind of exception raised
  lengths_match,        \* len(data_list) == len(file_paths) in that call
  kwargs,               \* the keys of **kwargs of that call
  display_config,       \* the object kwargs['display_config'] of that call
  message,              \* 'display_config' of the message dict, once built
  \* ---- publisher pool and transport context of the backend ----
  publishers,           \* self._publishers: destination -> socket
  zmq_context,          \* self._context: "None" or the context it refers to
  contexts,             \* state of every zmq.Context: none | live | terminated
  socketState,          \* state of every PUB socket: none | open | closed
  socketDest,           \* destination the socket was connected to
  gp_pc,                \* position of each producer thread in _get_publisher
  gp_key,               \* local `key` of the thread
  gp_publisher,         \* local `publisher` of the thread
  gp_calls,             \* number of _get_publisher calls started
  \* ---- FijiBatchProcessor fields ----
  fbp_batch_size,       \* self.batch_size, or NoBatchSize
  fbp_lock,             \* holder of self._lock, or NoThread
  fbp_pending_items,    \* self._pending_items
  fbp_debounce_delay,   \* self.debounce_delay_ms
  fbp_max_wait,         \* self.max_debounce_wait_ms
  fbp_first_item_time,  \* self._first_item_time, or NoTime
  fbp_timer,            \* self._debounce_timer: a timer id, or NoTimer
  fbp_timerState,       \* "unused" | "live" | "cancelled" | "fired"
  fbp_timerDeadline,    \* instant at which a live timer fires
  fbp_now,              \* time.time()
  fbp_pc,               \* position of every thread
  fbp_inAdd,            \* the thread is inside an add_items() call
  fbp_taken,            \* items taken by _process_pending_batch, per thread
  fbp_issued,           \* number of items created so far
  fbp_served,           \* batches passed to _process_items_from_batch
  \* ---- group_items_by_component_modes / build_layer_key ----
  component_order,      \* argument component_order
  component_modes,      \* argument component_modes
  images_dir,           \* argument images_dir, or NoDir
  g_pc,                 \* position in group_items_by_component_modes
  g_items,              \* the items the loop has gone through, in order
  g_result,             \* the dict `result`: mode -> component names
  g_windows,            \* the dict `windows`: window key -> items
  g_labels,             \* the dict `fixed_window_labels`
  g_first,              \* the first call that returned: arguments, result
  g_ncalls,             \* calls of group_items_by_component_modes so far
  component_info,       \* argument component_info of build_layer_key
  layer_keys,           \* keys returned for component_info, per data type
  layer_key_again,      \* one more call: its component_info, type and key
  \* ---- NapariBatchProcessor ----
  nbp_batch_size,       \* self.batch_size, or NoBatchSize
  \* ---- consumers of a display config, GenericComponentAccessor ----
  cfg_layer_key,        \* how build_layer_key ended on the config
  cfg_get_by_mode,      \* how GenericComponentAccessor.get_by_mode ended
  cfg_fields,           \* the keys of the dict an accessor was built from
  accessor,             \* how GenericComponentAccessor(...) ended
  acc_items,            \* self.items of the accessor
  acc_names,            \* argument component_names of collect_values
  acc_result,           \* what collect_values gave back
  \* ---- FijiROIHandler.handle ----
  roi_items,            \* roi_data.items of the call
  roi_pc,               \* idle | loop | done
  roi_index,            \* position of the loop in roi_data.items
  roi_acks,             \* image ids given to server._send_ack, in order
  rm_rois               \* number of ROIs added to the RoiManager

engineVars == <<debounce_delay, max_wait, lock, timer, first_enqueue_time,
                last_enqueue_time,
                pending_items, timerState, timerDeadline, now, pc,
                inEnqueue, drained, issued, S, drainedLog, processedLog,
                pending_context, drainedContext, contextLog, raisedBatches,
                propagated>>

backendVars == <<backend, ppc, nItems, image_ids, batch_images,
                 shared_memory_blocks, prodHandle, outcome, callBuffers,
                 calls, nextId, cleaned, registered, acked,
                 ackedUnregistered, shmName, prodUnlinks, recvUnlinks, mq,
                 sentItems, receivedItems>>

inputVars == <<lengths_match, kwargs, display_config, message>>

callVars == <<dest, returned, inputVars>>

poolVars == <<publishers, zmq_context, contexts, socketState, socketDest,
              gp_pc, gp_key, gp_publisher, gp_calls>>

fbpVars == <<fbp_batch_size, fbp_debounce_delay, fbp_max_wait, fbp_lock,
             fbp_pending_items, fbp_first_item_time, fbp_timer,
             fbp_timerState, fbp_timerDeadline, fbp_now, fbp_pc, fbp_inAdd,
             fbp_taken, fbp_issued, fbp_served>>

projVars == <<component_order, component_modes, images_dir, g_pc, g_items,
              g_result, g_windows, g_labels, g_first, g_ncalls,
              component_info, layer_keys, layer_key_again>>

napariVars == <<nbp_batch_size>>

accVars == <<cfg_layer_key, cfg_get_by_mode, cfg_fields, accessor,
             acc_items, acc_names, acc_result>>

roiVars == <<roi_items, roi_pc, roi_index, roi_acks, rm_rois>>

vars == <<engineVars, backendVars, callVars, poolVars, fbpVars, projVars,
          napariVars, roiVars, accVars>>

(***************************************************************************)
(* Helpers                                                                 *)
(***************************************************************************)
Min(a, b) == IF a <= b THEN a ELSE b

RECURSIVE Concat(_)
Concat(batches) ==
  IF batches = <<>> THEN <<>>
  ELSE Head(batches) \o Concat(Tail(batches))

Range(s) == {s[i] : i \in 1..Len(s)}

\* batch is S[o+1 .. o+Len(batch)] for some offset o
IsRunOf(batch, seq) ==
  \E o \in 0..(Len(seq) - Len(batch)) :
    \A i \in 1..Len(batch) : batch[i] = seq[o + i]

LiveTimers == {k \in TimerIds : timerState[k] = "live"}
UsedTimers == {k \in TimerIds : timerState[k] # "unused"}

(***************************************************************************)
(* DebouncedBatchEngine                                                    *)
(***************************************************************************)
EngineInitWith(delay, wait) ==
  /\ debounce_delay = delay
  /\ max_wait = wait
  /\ lock = NoThread
  /\ timer = NoTimer
  /\ first_enqueue_time = NoTime
  /\ last_enqueue_time = NoTime
  /\ pending_items = <<>>
  /\ timerState = [k \in TimerIds |-> "unused"]
  /\ timerDeadline = [k \in TimerIds |-> 0]
  /\ now = 0
  /\ pc = [t \in Threads |-> "idle"]
  /\ inEnqueue = [t \in Threads |-> FALSE]
  /\ drained = [t \in Threads |-> <<>>]
  /\ issued = 0
  /\ S = <<>>
  /\ drainedLog = <<>>
  /\ processedLog = <<>>
  /\ pending_context = NoContext
  /\ drainedContext = [t \in Threads |-> NoContext]
  /\ contextLog = <<>>
  /\ raisedBatches = {}
  /\ propagated = {}

\* threading.Timer.cancel(): stops a timer that has not fired yet
Cancelled(state) == IF state = "live" THEN "cancelled" ELSE state

\* remaining_wait of enqueue
RemainingWait_debounce_only(elapsed) == debounce_delay
RemainingWait(elapsed) == Min(debounce_delay, max_wait - elapsed)

\* the timer objects after threading.Timer(remaining_wait, self.flush) and
\* its start()
TimerStarted_never(states, new) == states
TimerStarted(states, new) == [states EXCEPT ![new] = "live"]

\* self._pending_context after enqueue(items, context)
ContextAfterEnqueue_first_wins(context) ==
  IF pending_context = NoContext THEN context ELSE pending_context
ContextAfterEnqueue(context) == context

\* the lists that flushes have drained, after self._pending_items.extend(items):
\* _drain_locked has bound self._pending_items to a new list, so extend does
\* not reach a drained list
SnapshotsAfterEnqueue_aliased(items) ==
  [t \in Threads |->
     IF pc[t] \in {"call_process", "in_process"} THEN drained[t] \o items
     ELSE drained[t]]
SnapshotsAfterEnqueue(items) == drained

\* enqueue(items, context) with n fresh items: the critical section runs as
\* one step, from taking self._lock to releasing it.  The context of a call
\* is a token of its own, named after the call's last item.  The clock of
\* the model ends at MaxTime: a call is admitted while the timer it may start
\* can still fire.
Enqueue(t, n) ==
  /\ pc[t] = "idle"
  /\ issued + n <= MaxItems
  /\ now + debounce_delay <= MaxTime
  /\ lock = NoThread
  /\ LET items == [i \in 1..n |-> issued + i]
         context == issued + n
         first == IF first_enqueue_time = NoTime THEN now
                  ELSE first_enqueue_time
         afterCancel ==
           IF timer # NoTimer
             THEN [timerState EXCEPT ![timer] = Cancelled(@)]
             ELSE timerState
         elapsed == now - first
         new == Cardinality(UsedTimers) + 1
     IN /\ pending_items' = pending_items \o items
        /\ drained' = SnapshotsAfterEnqueue(items)
        /\ pending_context' = ContextAfterEnqueue(context)
        /\ S' = S \o items
        /\ issued' = issued + n
        /\ first_enqueue_time' = first
        /\ last_enqueue_time' = now
        /\ IF elapsed >= max_wait
             THEN \* should_process_now: enqueue goes on to self.flush()
                  /\ timerState' = afterCancel
                  /\ UNCHANGED <<timer, timerDeadline>>
                  /\ pc' = [pc EXCEPT ![t] = "flush_lock"]
                  /\ inEnqueue' = [inEnqueue EXCEPT ![t] = TRUE]
             ELSE /\ timerState' = TimerStarted(afterCancel, new)
                  /\ timerDeadline' =
                       [timerDeadline EXCEPT ![new] = now + RemainingWait(elapsed)]
                  /\ timer' = new
                  /\ UNCHANGED <<pc, inEnqueue>>
  /\ UNCHANGED <<debounce_delay, max_wait, lock, now, drainedLog,
                 processedLog, drainedContext, contextLog, raisedBatches,
                 propagated>>
  /\ UNCHANGED <<backendVars, callVars, poolVars, fbpVars, projVars,
                 napariVars, roiVars, accVars>>

\* a caller enters flush() directly
FlushCall(t) ==
  /\ pc[t] = "idle"
  /\ pc' = [pc EXCEPT ![t] = "flush_lock"]
  /\ UNCHANGED <<debounce_delay, max_wait, lock, timer, first_enqueue_time,
                 last_enqueue_time,
                 pending_items, timerState, timerDeadline, now, inEnqueue,
                 drained, issued, S, drainedLog, processedLog,
                 pending_context, drainedContext, contextLog, raisedBatches,
                 propagated>>
  /\ UNCHANGED <<backendVars, callVars, poolVars, fbpVars, projVars,
                 napariVars, roiVars, accVars>>

\* a live timer reaches its deadline: its thread calls self.flush
TimerFire(k) ==
  /\ timerState[k] = "live"
  /\ now >= timerDeadline[k]
  /\ timerState' = [timerState EXCEPT ![k] = "fired"]
  /\ pc' = [pc EXCEPT ![TimerThread(k)] = "flush_lock"]
  /\ UNCHANGED <<debounce_delay, max_wait, lock, timer, first_enqueue_time,
                 last_enqueue_time,
                 pending_items, timerDeadline, now, inEnqueue,
                 drained, issued, S, drainedLog, processedLog,
                 pending_context, drainedContext, contextLog, raisedBatches,
                 propagated>>
  /\ UNCHANGED <<backendVars, callVars, poolVars, fbpVars, projVars,
                 napariVars, roiVars, accVars>>

\* self._pending_items after _drain_locked has taken the batch
PendingAfterDrain_kept(items) == items
PendingAfterDrain(items) == <<>>

\* holder of self._lock when _drain_locked has returned to flush
LockAfterDrain_held(t) == t
LockAfterDrain(t) == NoThread

\* `if not self._pending_items` of _drain_locked
NothingPending_never(items) == FALSE
NothingPending(items) == items = <<>>

\* _drain_locked, from taking self._lock to releasing it: one step, since
\* everything it reads and writes is guarded by the lock
Drain(t) ==
  /\ pc[t] = "flush_lock"
  /\ lock = NoThread
  /\ timer' = NoTimer
  /\ first_enqueue_time' = NoTime
  /\ IF NothingPending(pending_items)
       THEN \* return None: flush returns
            /\ pc' = [pc EXCEPT ![t] = "idle"]
            /\ inEnqueue' = [inEnqueue EXCEPT ![t] = FALSE]
            /\ UNCHANGED <<pending_items, drained, drainedLog,
                           pending_context, drainedContext>>
       ELSE /\ drained' = [drained EXCEPT ![t] = pending_items]
            /\ drainedContext' = [drainedContext EXCEPT ![t] = pending_context]
            /\ pending_items' = PendingAfterDrain(pending_items)
            /\ pending_context' = NoContext
            /\ drainedLog' = Append(drainedLog,
                 [items |-> pending_items,
                  age |-> now - first_enqueue_time,
                  wait |-> now - last_enqueue_time,
                  thread |-> t])
            /\ pc' = [pc EXCEPT ![t] = "call_process"]
            /\ UNCHANGED inEnqueue
  /\ lock' = LockAfterDrain(t)
  /\ UNCHANGED <<debounce_delay, max_wait, last_enqueue_time, timerState,
                 timerDeadline, now,
                 issued, S, processedLog, contextLog, raisedBatches,
                 propagated>>
  /\ UNCHANGED <<backendVars, callVars, poolVars, fbpVars, projVars,
                 napariVars, roiVars, accVars>>

\* flush hands the drained batch and its context to process_fn
ProcessCall(t) ==
  /\ pc[t] = "call_process"
  /\ processedLog' = Append(processedLog, drained[t])
  /\ contextLog' = Append(contextLog, drainedContext[t])
  /\ pc' = [pc EXCEPT ![t] = "in_process"]
  /\ UNCHANGED <<debounce_delay, max_wait, lock, timer, first_enqueue_time,
                 last_enqueue_time,
                 pending_items, timerState, timerDeadline, now, inEnqueue,
                 drained, issued, S, drainedLog, pending_context,
                 drainedContext, raisedBatches, propagated>>
  /\ UNCHANGED <<backendVars, callVars, poolVars, fbpVars, projVars,
                 napariVars, roiVars, accVars>>

\* how process_fn can end
ProcessResults == {"returned", "raised"}
\* the process_fn of the model: it raises on every batch that holds one of
\* these items and returns on every other batch
FailingItems == {2}
ProcessResult(batch) ==
  IF Range(batch) \cap FailingItems # {} THEN "raised" ELSE "returned"

\* does what process_fn raised leave flush(): `except Exception` logs it
Escapes_uncaught(result) == result = "raised"
Escapes(result) == FALSE

\* process_fn returns or raises, and flush() ends
ProcessReturn(t, result) ==
  /\ pc[t] = "in_process"
  /\ result = ProcessResult(drained[t])
  /\ pc' = [pc EXCEPT ![t] = "idle"]
  /\ inEnqueue' = [inEnqueue EXCEPT ![t] = FALSE]
  /\ raisedBatches' = IF result = "raised"
                        THEN raisedBatches \cup {<<Head(drained[t]), t>>}
                        ELSE raisedBatches
  /\ propagated' = IF Escapes(result) THEN propagated \cup {t}
                   ELSE propagated
  /\ drained' = [drained EXCEPT ![t] = <<>>]
  /\ drainedContext' = [drainedContext EXCEPT ![t] = NoContext]
  /\ UNCHANGED <<debounce_delay, max_wait, lock, timer, first_enqueue_time,
                 last_enqueue_time,
                 pending_items, timerState, timerDeadline, now, issued, S,
                 drainedLog, processedLog, pending_context, contextLog>>
  /\ UNCHANGED <<backendVars, callVars, poolVars, fbpVars, projVars,
                 napariVars, roiVars, accVars>>

\* the clock advances: a due timer fires first, and the engine's own steps
\* take no time (only process_fn runs for long)
Tick ==
  /\ now < MaxTime
  /\ \A k \in LiveTimers : timerDeadline[k] > now
  /\ \A t \in Threads : pc[t] \in {"idle", "in_process"}
  /\ now' = now + 1
  /\ UNCHANGED <<debounce_delay, max_wait, lock, timer, first_enqueue_time,
                 last_enqueue_time,
                 pending_items, timerState, timerDeadline, pc, inEnqueue,
                 drained, issued, S, drainedLog, processedLog,
                 pending_context, drainedContext, contextLog, raisedBatches,
                 propagated>>
  /\ UNCHANGED <<backendVars, callVars, poolVars, fbpVars, projVars,
                 napariVars, roiVars, accVars>>

(***************************************************************************)
(* Streaming backends: save_batch, cleanup, shared buffers, transport      *)
(***************************************************************************)
Backends == {"fiji", "napari"}
\* every item id names the shared buffer created for that item, if any
BufferIds == 1..(MaxCalls * LargestBatch)

\* the keys f"{host}:{port}" of the destinations a producer sends to
Dests == {"localhost:5555", "localhost:5556"}
\* no entry under a key of self._publishers; self._context is None
NoSocket == 0
NoZmqContext == 0
\* the destinations are interchangeable: a producer's first destination is
\* called localhost:5555, and the other one is used once that one is pooled
DestChoices ==
  {d \in Dests :
     d = "localhost:5555" \/ publishers["localhost:5555"] # NoSocket}
\* every zmq socket / context object created over a run has an id
SocketIds == 1..MaxCalls
ContextIds == 1..MaxCalls
\* the producer threads that call save_batch on one backend object
ProducerThreads == {1, 2}

\* the required keys of **kwargs (the port is fiji_port or napari_port)
KwargNames == {"port", "display_config", "microscope_handler"}
\* display config objects: COMPONENT_ORDER and the "<name>_mode" attributes
\* the object has, with the value of each
ConfigOrder == <<"well", "channel", "z">>
FullConfig ==
  [COMPONENT_ORDER |-> ConfigOrder,
   mode_fields |->
     ("well" :> "window") @@ ("channel" :> "stack") @@ ("z" :> "slice")]
NoModeConfig ==
  [COMPONENT_ORDER |-> ConfigOrder,
   mode_fields |-> ("well" :> "window") @@ ("channel" :> "stack")]
\* the arguments of a call: well-formed, with either display config, or
\* with lists of different length, or with one required key missing
GoodInput ==
  [lengths_match |-> TRUE, kwargs |-> KwargNames,
   display_config |-> FullConfig]
InputChoices ==
  {GoodInput,
   [GoodInput EXCEPT !.display_config = NoModeConfig],
   [GoodInput EXCEPT !.lengths_match = FALSE]}
    \cup {[GoodInput EXCEPT !.kwargs = KwargNames \ {k}] : k \in KwargNames}

\* the check at the entry of save_batch that raises, if any: ValueError for
\* the lengths, KeyError for kwargs[...] of a missing key
Rejection_none(lengths, kw) == "none"
Rejection(lengths, kw) ==
  IF ~lengths THEN "length"
  ELSE IF "port" \notin kw THEN "port"
  ELSE IF "display_config" \notin kw THEN "display_config"
  ELSE IF "microscope_handler" \notin kw THEN "microscope_handler"
  ELSE "none"

\* component_modes of the message: an entry for every name of
\* COMPONENT_ORDER for which hasattr(display_config, "<name>_mode")
MessageModes(cfg) ==
  [c \in {x \in Range(cfg.COMPONENT_ORDER) : x \in DOMAIN cfg.mode_fields}
     |-> cfg.mode_fields[c]]
NoMessage == << >>

BackendInitWith(cls) ==
  /\ backend = cls
  /\ dest = "localhost:5555"
  /\ returned = "none"
  /\ lengths_match = TRUE
  /\ kwargs = KwargNames
  /\ display_config = FullConfig
  /\ message = NoMessage
  /\ publishers = [d \in Dests |-> NoSocket]
  /\ zmq_context = NoZmqContext
  /\ contexts = [c \in ContextIds |-> "none"]
  /\ socketState = [k \in SocketIds |-> "none"]
  /\ socketDest = [k \in SocketIds |-> "localhost:5555"]
  /\ gp_pc = [t \in ProducerThreads |-> "idle"]
  /\ gp_key = [t \in ProducerThreads |-> "localhost:5555"]
  /\ gp_publisher = [t \in ProducerThreads |-> NoSocket]
  /\ gp_calls = 0
  /\ ppc = "idle"
  /\ nItems = 0
  /\ image_ids = <<>>
  /\ batch_images = <<>>
  /\ shared_memory_blocks = {}
  /\ prodHandle = [b \in BufferIds |-> "none"]
  /\ outcome = "none"
  /\ callBuffers = {}
  /\ calls = 0
  /\ nextId = 0
  /\ cleaned = FALSE
  /\ registered = {}
  /\ acked = {}
  /\ ackedUnregistered = {}
  /\ shmName = [b \in BufferIds |-> "none"]
  /\ prodUnlinks = [b \in BufferIds |-> 0]
  /\ recvUnlinks = [b \in BufferIds |-> 0]
  /\ mq = <<>>
  /\ sentItems = {}
  /\ receivedItems = {}

\* the ids of the socket and the context the next creation yields
NewSocket == Cardinality({k \in SocketIds : socketState[k] # "none"}) + 1
NewContext == Cardinality({c \in ContextIds : contexts[c] # "none"}) + 1

\* _get_publisher(host, port) run by one thread from entry to return: the
\* pooled socket of the key, or a new context (when there is none), a new
\* PUB socket connected to the key, and its entry in self._publishers
GetPublisher(key) ==
  IF publishers[key] # NoSocket
    THEN UNCHANGED <<publishers, zmq_context, contexts, socketState,
                     socketDest>>
    ELSE /\ IF zmq_context = NoZmqContext
              THEN /\ zmq_context' = NewContext
                   /\ contexts' = [contexts EXCEPT ![NewContext] = "live"]
              ELSE UNCHANGED <<zmq_context, contexts>>
         /\ socketState' = [socketState EXCEPT ![NewSocket] = "open"]
         /\ socketDest' = [socketDest EXCEPT ![NewSocket] = key]
         /\ publishers' = [publishers EXCEPT ![key] = NewSocket]

\* self._get_publisher of the StreamingBackend base class, which the napari
\* backend inherits: one pooled publisher per destination, created lazily
NapariGetPublisher(key) == GetPublisher(key)

\* save_batch(data_list, file_paths, host=.., port=.., **kwargs) with n
\* images for destination d: the publisher is fetched before the loop
SaveBatchCall(n, d, input) ==
  /\ ppc = "idle"
  /\ d \in DestChoices
  /\ ~cleaned
  /\ calls < MaxCalls
  /\ calls' = calls + 1
  /\ nItems' = n
  /\ dest' = d
  /\ lengths_match' = input.lengths_match
  /\ kwargs' = input.kwargs
  /\ display_config' = input.display_config
  /\ message' = NoMessage
  /\ LET rejection == Rejection(input.lengths_match, input.kwargs)
     IN /\ IF rejection \in {"length", "port"}
             THEN UNCHANGED <<publishers, zmq_context, contexts,
                              socketState, socketDest>>
             ELSE IF backend = "fiji" THEN GetPublisher(d)
                  ELSE NapariGetPublisher(d)
        /\ IF rejection = "none"
             THEN /\ returned' = "none"
                  /\ outcome' = "none"
                  /\ ppc' = "loop"
             ELSE /\ returned' = "input error"
                  /\ outcome' = "raised"
                  /\ ppc' = "idle"
  /\ UNCHANGED <<gp_pc, gp_key, gp_publisher, gp_calls>>
  /\ image_ids' = <<>>
  /\ batch_images' = <<>>
  /\ callBuffers' = {}
  /\ UNCHANGED <<backend, shared_memory_blocks, prodHandle, nextId, cleaned,
                 registered, acked, ackedUnregistered, shmName, prodUnlinks,
                 recvUnlinks, mq, sentItems, receivedItems>>
  /\ UNCHANGED <<engineVars, fbpVars, projVars, napariVars, roiVars, accVars>>

\* what can go wrong in one iteration of the preparation loop:
\*   "early": before the item's buffer exists (fiji: conversion to numpy or
\*            SharedMemory(create=True) raises; napari: _detect_data_type,
\*            _parse_component_metadata or _create_shared_memory raises)
\*   "late":  after the buffer was created and tracked (fiji only:
\*            parse_filename raises)
ItemOutcomes == IF backend = "fiji" THEN {"ok", "early", "late"}
                ELSE {"ok", "early"}

\* SharedMemory(create=True, ...), the copy into it, and the entry in
\* self._shared_memory_blocks
CreateBuffer(id) ==
  /\ shmName' = [shmName EXCEPT ![id] = "linked"]
  /\ prodHandle' = [prodHandle EXCEPT ![id] = "open"]
  /\ shared_memory_blocks' = shared_memory_blocks \cup {id}
  /\ callBuffers' = callBuffers \cup {id}

\* self._create_shared_memory(data, file_path) of the StreamingBackend base
\* class: allocates the named buffer, copies the array in and tracks it
NapariCreateSharedMemory(id) == CreateBuffer(id)

\* one iteration of `for data, file_path in zip(data_list, file_paths)`
PrepareItem(result) ==
  /\ ppc = "loop"
  /\ Len(image_ids) < nItems
  /\ result \in ItemOutcomes
  /\ LET id == nextId + 1
     IN /\ nextId' = id
        /\ image_ids' = Append(image_ids, id)
        /\ IF result = "early"
             THEN UNCHANGED <<shmName, prodHandle, shared_memory_blocks,
                              callBuffers>>
             ELSE IF backend = "fiji" THEN CreateBuffer(id)
                  ELSE NapariCreateSharedMemory(id)
        /\ IF result = "ok"
             THEN /\ batch_images' = Append(batch_images, id)
                  /\ UNCHANGED <<ppc, outcome>>
             ELSE \* the exception leaves save_batch: nothing catches it
                  /\ ppc' = "idle"
                  /\ outcome' = "raised"
                  /\ UNCHANGED batch_images
        /\ returned' = IF result = "ok" THEN returned ELSE "item error"
  /\ UNCHANGED <<dest, inputVars, poolVars>>
  /\ UNCHANGED <<backend, nItems, calls, cleaned, registered, acked,
                 ackedUnregistered, prodUnlinks, recvUnlinks, mq, sentItems,
                 receivedItems>>
  /\ UNCHANGED <<engineVars, fbpVars, projVars, napariVars, roiVars, accVars>>

\* component modes and the message dict are built; display_config may raise
BuildMessage(ok) ==
  /\ ppc = "loop"
  /\ Len(image_ids) = nItems
  /\ IF ok THEN /\ ppc' = "send"
                /\ message' =
                     << [component_modes |-> MessageModes(display_config),
                         component_order |->
                           display_config.COMPONENT_ORDER] >>
                /\ UNCHANGED <<outcome, returned>>
           ELSE /\ ppc' = "idle"
                /\ outcome' = "raised"
                /\ returned' = "message error"
                /\ UNCHANGED message
  /\ UNCHANGED <<dest, lengths_match, kwargs, display_config, poolVars>>
  /\ UNCHANGED <<backend, nItems, image_ids, batch_images,
                 shared_memory_blocks, prodHandle, callBuffers, calls,
                 nextId, cleaned, registered, acked, ackedUnregistered,
                 shmName, prodUnlinks, recvUnlinks, mq, sentItems,
                 receivedItems>>
  /\ UNCHANGED <<engineVars, fbpVars, projVars, napariVars, roiVars, accVars>>

\* buffers of the batch that are still in self._shared_memory_blocks
Tracked(images) == Range(images) \cap shared_memory_blocks

\* the cleanup loops of save_batch: pop and close every tracked buffer of
\* the batch, and unlink it where the loop says so
HandlesAfterCleanup(images) ==
  [b \in BufferIds |->
     IF b \in Tracked(images) THEN "closed"
     ELSE prodHandle[b]]
NamesAfterUnlink_close_only(images) == shmName
NamesAfterUnlink(images) ==
  [b \in BufferIds |->
     IF b \in Tracked(images) THEN "unlinked"
     ELSE shmName[b]]
UnlinksAfterUnlink(images) ==
  [b \in BufferIds |->
     IF b \in Tracked(images) THEN prodUnlinks[b] + 1
     ELSE prodUnlinks[b]]

\* `except zmq.Again:` and napari's `except Exception:`: close and unlink
CloseAndUnlink ==
  /\ shared_memory_blocks' = shared_memory_blocks \ Range(batch_images)
  /\ prodHandle' = HandlesAfterCleanup(batch_images)
  /\ shmName' = NamesAfterUnlink(batch_images)
  /\ prodUnlinks' = UnlinksAfterUnlink(batch_images)

\* the exception handlers of save_batch's try block, per backend class:
\* does `except Exception:` (close, unlink, re-raise) exist
CatchesException == backend = "napari"

\* an exception other than zmq.Again inside the try block
RaiseInTry ==
  /\ IF CatchesException
       THEN CloseAndUnlink
       ELSE UNCHANGED <<shared_memory_blocks, prodHandle, shmName,
                        prodUnlinks>>
  /\ ppc' = "idle"
  /\ outcome' = "raised"

\* the registered ids when send_json has raised: register_sent comes after
\* send_json inside the try, so it was not reached
RegisteredAfterFailedSend_batch(ids) == registered \cup Range(ids)
RegisteredAfterFailedSend(ids) == registered

\* publisher.send_json(message, flags=zmq.NOBLOCK)
Send(result) ==
  /\ ppc = "send"
  /\ result \in {"ok", "again", "error"}
  /\ registered' = IF result = "ok" THEN registered
                   ELSE RegisteredAfterFailedSend(image_ids)
  /\ CASE result = "ok" ->
            /\ mq' = Append(mq, batch_images)
            /\ sentItems' = sentItems \cup Range(batch_images)
            /\ ppc' = "register"
            /\ UNCHANGED <<shared_memory_blocks, prodHandle, shmName,
                           prodUnlinks, outcome, returned>>
       [] result = "again" ->
            \* `except zmq.Again:` logs a warning, cleans up and falls off
            \* the end of save_batch
            /\ CloseAndUnlink
            /\ ppc' = "idle"
            /\ outcome' = "busy"
            /\ returned' = "None"
            /\ UNCHANGED <<mq, sentItems>>
       [] result = "error" ->
            /\ RaiseInTry
            /\ returned' = "transport error"
            /\ UNCHANGED <<mq, sentItems>>
  /\ UNCHANGED <<dest, inputVars, poolVars>>
  /\ UNCHANGED <<backend, nItems, image_ids, batch_images, callBuffers,
                 calls, nextId, cleaned, acked, ackedUnregistered,
                 recvUnlinks, receivedItems>>
  /\ UNCHANGED <<engineVars, fbpVars, projVars, napariVars, roiVars, accVars>>

\* tracker.register_sent(image_id) for every id, after the send
Register(ok) ==
  /\ ppc = "register"
  /\ IF ok
       THEN /\ registered' = registered \cup Range(image_ids)
            /\ ppc' = "close"
            /\ UNCHANGED <<shared_memory_blocks, prodHandle, shmName,
                           prodUnlinks, outcome, returned>>
       ELSE /\ RaiseInTry
            /\ returned' = "tracker error"
            /\ UNCHANGED registered
  /\ UNCHANGED <<dest, inputVars, poolVars>>
  /\ UNCHANGED <<backend, nItems, image_ids, batch_images, callBuffers,
                 calls, nextId, cleaned, acked, ackedUnregistered,
                 recvUnlinks, mq, sentItems, receivedItems>>
  /\ UNCHANGED <<engineVars, fbpVars, projVars, napariVars, roiVars, accVars>>

\* after a successful send: pop every handle of the batch and close it
CloseHandles ==
  /\ ppc = "close"
  /\ shared_memory_blocks' = shared_memory_blocks \ Range(batch_images)
  /\ prodHandle' = HandlesAfterCleanup(batch_images)
  /\ ppc' = "idle"
  /\ outcome' = "ok"
  /\ returned' = "None"
  /\ UNCHANGED <<dest, inputVars, poolVars>>
  /\ UNCHANGED <<backend, nItems, image_ids, batch_images, callBuffers,
                 calls, nextId, cleaned, registered, acked,
                 ackedUnregistered, shmName, prodUnlinks, recvUnlinks, mq,
                 sentItems, receivedItems>>
  /\ UNCHANGED <<engineVars, fbpVars, projVars, napariVars, roiVars, accVars>>

\* what cleanup() tries to release, and the one of them, if any, whose
\* close() / term() raises
NoFailure == <<"none">>
FailureChoices ==
  {NoFailure} \cup ({"buffer"} \X BufferIds) \cup ({"publisher"} \X Dests)
    \cup ({"context"} \X ContextIds)
CleanupFailures ==
  {NoFailure}
    \cup {<<"buffer", b>> : b \in shared_memory_blocks}
    \cup {<<"publisher", d>> : d \in {e \in Dests : publishers[e] # NoSocket}}
    \cup {<<"context", c>> : c \in {zmq_context} \ {NoZmqContext}}

\* `try: shm.close(); shm.unlink() except Exception: warning`, per tracked
\* buffer: an exception of close() skips the unlink() of the same buffer
ReleasedBuffers(fail) == shared_memory_blocks \ {fail[2]}

\* cleanup(): close and unlink whatever is still tracked and clear the map,
\* close every pooled publisher and clear the pool, terminate the context
\* and drop the reference; every exception is logged and swallowed
Cleanup(fail) ==
  /\ ppc = "idle"
  /\ \A t \in ProducerThreads : gp_pc[t] = "idle"
  /\ fail \in CleanupFailures
  /\ cleaned' = TRUE
  /\ LET released == IF fail[1] = "buffer" THEN ReleasedBuffers(fail)
                      ELSE shared_memory_blocks
     IN /\ prodHandle' = [b \in BufferIds |->
             IF b \in released THEN "closed" ELSE prodHandle[b]]
        /\ shmName' = [b \in BufferIds |->
             IF b \in released THEN "unlinked" ELSE shmName[b]]
        /\ prodUnlinks' = [b \in BufferIds |->
             IF b \in released THEN prodUnlinks[b] + 1
             ELSE prodUnlinks[b]]
  /\ shared_memory_blocks' = {}
  /\ socketState' = [k \in SocketIds |->
       IF /\ \E d \in Dests : publishers[d] = k
          /\ ~(fail[1] = "publisher" /\ fail[2] = socketDest[k])
         THEN "closed" ELSE socketState[k]]
  /\ publishers' = [d \in Dests |-> NoSocket]
  /\ contexts' = [c \in ContextIds |->
       IF c = zmq_context /\ fail[1] # "context"
         THEN "terminated" ELSE contexts[c]]
  /\ zmq_context' = NoZmqContext
  /\ UNCHANGED <<backend, ppc, nItems, image_ids, batch_images,
                 outcome, callBuffers, calls, nextId, registered, acked,
                 ackedUnregistered, recvUnlinks, mq, sentItems,
                 receivedItems>>
  /\ UNCHANGED <<callVars, socketDest, gp_pc, gp_key, gp_publisher, gp_calls>>
  /\ UNCHANGED <<engineVars, fbpVars, projVars, napariVars, roiVars, accVars>>

\* ---- _get_publisher step by step, as several producer threads run it ----
\* No lock is taken: between two steps of a thread any other thread may run.

\* save_batch of thread t calls self._get_publisher(host, port):
\* `key = f"{host}:{port}"` and the test `key not in self._publishers`
GetPublisherCheck(t, key) ==
  /\ gp_pc[t] = "idle"
  /\ ~cleaned
  /\ gp_calls < MaxCalls
  /\ gp_calls' = gp_calls + 1
  /\ gp_key' = [gp_key EXCEPT ![t] = key]
  /\ IF publishers[key] # NoSocket
       THEN \* `return self._publishers[key]`
            /\ gp_publisher' = [gp_publisher EXCEPT ![t] = publishers[key]]
            /\ UNCHANGED gp_pc
       ELSE /\ gp_pc' = [gp_pc EXCEPT ![t] = "context"]
            /\ gp_publisher' = [gp_publisher EXCEPT ![t] = NoSocket]
  /\ UNCHANGED <<publishers, zmq_context, contexts, socketState, socketDest>>
  /\ UNCHANGED <<backendVars, callVars>>
  /\ UNCHANGED <<engineVars, fbpVars, projVars, napariVars, roiVars, accVars>>

\* the test `if self._context is None`
GetPublisherContext(t) ==
  /\ gp_pc[t] = "context"
  /\ gp_pc' = [gp_pc EXCEPT ![t] =
       IF zmq_context = NoZmqContext THEN "new_context" ELSE "socket"]
  /\ UNCHANGED <<publishers, zmq_context, contexts, socketState, socketDest,
                 gp_key, gp_publisher, gp_calls>>
  /\ UNCHANGED <<backendVars, callVars>>
  /\ UNCHANGED <<engineVars, fbpVars, projVars, napariVars, roiVars, accVars>>

\* `self._context = zmq.Context()`
GetPublisherNewContext(t) ==
  /\ gp_pc[t] = "new_context"
  /\ NewContext \in ContextIds
  /\ contexts' = [contexts EXCEPT ![NewContext] = "live"]
  /\ zmq_context' = NewContext
  /\ gp_pc' = [gp_pc EXCEPT ![t] = "socket"]
  /\ UNCHANGED <<publishers, socketState, socketDest, gp_key, gp_publisher,
                 gp_calls>>
  /\ UNCHANGED <<backendVars, callVars>>
  /\ UNCHANGED <<engineVars, fbpVars, projVars, napariVars, roiVars, accVars>>

\* `publisher = self._context.socket(zmq.PUB)`, setsockopt, connect and
\* time.sleep(0.1)
GetPublisherSocket(t) ==
  /\ gp_pc[t] = "socket"
  /\ NewSocket \in SocketIds
  /\ socketState' = [socketState EXCEPT ![NewSocket] = "open"]
  /\ socketDest' = [socketDest EXCEPT ![NewSocket] = gp_key[t]]
  /\ gp_publisher' = [gp_publisher EXCEPT ![t] = NewSocket]
  /\ gp_pc' = [gp_pc EXCEPT ![t] = "insert"]
  /\ UNCHANGED <<publishers, zmq_context, contexts, gp_key, gp_calls>>
  /\ UNCHANGED <<backendVars, callVars>>
  /\ UNCHANGED <<engineVars, fbpVars, projVars, napariVars, roiVars, accVars>>

\* `self._publishers[key] = publisher` and `return self._publishers[key]`
GetPublisherInsert(t) ==
  /\ gp_pc[t] = "insert"
  /\ publishers' = [publishers EXCEPT ![gp_key[t]] = gp_publisher[t]]
  /\ gp_pc' = [gp_pc EXCEPT ![t] = "idle"]
  /\ UNCHANGED <<zmq_context, contexts, socketState, socketDest, gp_key,
                 gp_publisher, gp_calls>>
  /\ UNCHANGED <<backendVars, callVars>>
  /\ UNCHANGED <<engineVars, fbpVars, projVars, napariVars, roiVars, accVars>>

\* the receiver takes the next batch message: for every image it opens the
\* buffer by name, copies the data out, closes and unlinks (a name that is
\* gone makes the open fail)
Receive ==
  /\ mq # <<>>
  /\ LET images == Range(Head(mq))
     IN /\ recvUnlinks' = [b \in BufferIds |->
             IF b \in images /\ shmName[b] = "linked"
               THEN recvUnlinks[b] + 1 ELSE recvUnlinks[b]]
        /\ shmName' = [b \in BufferIds |->
             IF b \in images /\ shmName[b] = "linked"
               THEN "unlinked" ELSE shmName[b]]
        /\ receivedItems' = receivedItems \cup images
  /\ mq' = Tail(mq)
  /\ UNCHANGED <<backend, ppc, nItems, image_ids, batch_images,
                 shared_memory_blocks, prodHandle, outcome, callBuffers,
                 calls, nextId, cleaned, registered, acked,
                 ackedUnregistered, prodUnlinks, sentItems>>
  /\ UNCHANGED <<callVars, poolVars>>
  /\ UNCHANGED <<engineVars, fbpVars, projVars, napariVars, roiVars, accVars>>

\* the transport loses the next batch message: a published batch is best
\* effort and may never reach the receiver
Lose ==
  /\ mq # <<>>
  /\ mq' = Tail(mq)
  /\ UNCHANGED <<backend, ppc, nItems, image_ids, batch_images,
                 shared_memory_blocks, prodHandle, outcome, callBuffers,
                 calls, nextId, cleaned, registered, acked,
                 ackedUnregistered, shmName, prodUnlinks, recvUnlinks,
                 sentItems, receivedItems>>
  /\ UNCHANGED <<callVars, poolVars>>
  /\ UNCHANGED <<engineVars, fbpVars, projVars, napariVars, roiVars, accVars>>

\* the receiver's ack for item i reaches the producer: tracker.mark_ack(i)
MarkAck(i) ==
  /\ i \in receivedItems \ acked
  \* the receiver handles, and acks, the items it got in order
  /\ \A j \in receivedItems \ acked : i <= j
  /\ acked' = acked \cup {i}
  /\ ackedUnregistered' =
       IF i \in registered THEN ackedUnregistered
       ELSE ackedUnregistered \cup {i}
  /\ UNCHANGED <<backend, ppc, nItems, image_ids, batch_images,
                 shared_memory_blocks, prodHandle, outcome, callBuffers,
                 calls, nextId, cleaned, registered, shmName, prodUnlinks,
                 recvUnlinks, mq, sentItems, receivedItems>>
  /\ UNCHANGED <<callVars, poolVars>>
  /\ UNCHANGED <<engineVars, fbpVars, projVars, napariVars, roiVars, accVars>>

(***************************************************************************)
(* FijiBatchProcessor                                                      *)
(***************************************************************************)
FbpInitWith(size, delay, wait) ==
  /\ fbp_batch_size = size
  /\ fbp_debounce_delay = delay
  /\ fbp_max_wait = wait
  /\ fbp_lock = NoThread
  /\ fbp_pending_items = <<>>
  /\ fbp_first_item_time = NoTime
  /\ fbp_timer = NoTimer
  /\ fbp_timerState = [k \in TimerIds |-> "unused"]
  /\ fbp_timerDeadline = [k \in TimerIds |-> 0]
  /\ fbp_now = 0
  /\ fbp_pc = [t \in FbpThreads |-> "idle"]
  /\ fbp_inAdd = [t \in FbpThreads |-> FALSE]
  /\ fbp_taken = [t \in FbpThreads |-> <<>>]
  /\ fbp_issued = 0
  /\ fbp_served = <<>>

\* the batch-size test of add_items
BatchSizeReached(count) ==
  fbp_batch_size # NoBatchSize /\ count >= fbp_batch_size

\* the delay _schedule_debounced_processing gives the new timer
FbpTimerDelay == fbp_debounce_delay

\* add_items(window_key, items, ...) with n fresh items, from taking
\* self._lock to the end of the decision.  When should_process is set,
\* _process_pending_batch() is called inside the `with self._lock:` block:
\* the thread goes on holding the lock.  The clock of the model ends at
\* MaxTime: a call is admitted while the timer it may start can still fire.
AddItems(t, n) ==
  /\ fbp_pc[t] = "idle"
  /\ fbp_issued + n <= MaxItems
  /\ fbp_now + fbp_debounce_delay <= MaxTime
  /\ fbp_lock = NoThread
  /\ LET items == [i \in 1..n |-> fbp_issued + i]
         count == Len(fbp_pending_items) + n
         first == IF fbp_first_item_time = NoTime THEN fbp_now
                  ELSE fbp_first_item_time
         elapsed == fbp_now - first
         should_process ==
           BatchSizeReached(count) \/ elapsed >= fbp_max_wait
         new == Cardinality({k \in TimerIds : fbp_timerState[k] # "unused"}) + 1
     IN /\ fbp_pending_items' = fbp_pending_items \o items
        /\ fbp_issued' = fbp_issued + n
        /\ fbp_first_item_time' = first
        /\ IF should_process
             THEN /\ fbp_lock' = t
                  /\ fbp_pc' = [fbp_pc EXCEPT ![t] = "process_lock"]
                  /\ fbp_inAdd' = [fbp_inAdd EXCEPT ![t] = TRUE]
                  /\ UNCHANGED <<fbp_timer, fbp_timerState,
                                 fbp_timerDeadline>>
             ELSE \* _schedule_debounced_processing, then the lock is released
                  /\ fbp_timerState' =
                       [k \in TimerIds |->
                          IF k = new THEN "live"
                          ELSE IF k = fbp_timer THEN Cancelled(fbp_timerState[k])
                          ELSE fbp_timerState[k]]
                  /\ fbp_timerDeadline' =
                       [fbp_timerDeadline EXCEPT ![new] = fbp_now + FbpTimerDelay]
                  /\ fbp_timer' = new
                  /\ UNCHANGED <<fbp_lock, fbp_pc, fbp_inAdd>>
  /\ UNCHANGED <<fbp_batch_size, fbp_debounce_delay, fbp_max_wait, fbp_now,
                 fbp_taken, fbp_served>>
  /\ UNCHANGED <<engineVars, backendVars, callVars, poolVars, projVars,
                 napariVars, roiVars, accVars>>

\* the debounce timer fires: its thread calls _process_pending_batch
FbpTimerFire(k) ==
  /\ fbp_timerState[k] = "live"
  /\ fbp_now >= fbp_timerDeadline[k]
  /\ fbp_timerState' = [fbp_timerState EXCEPT ![k] = "fired"]
  /\ fbp_pc' = [fbp_pc EXCEPT ![TimerThread(k)] = "process_lock"]
  /\ UNCHANGED <<fbp_batch_size, fbp_debounce_delay, fbp_max_wait, fbp_lock,
                 fbp_pending_items, fbp_first_item_time, fbp_timer,
                 fbp_timerDeadline, fbp_now, fbp_inAdd, fbp_taken,
                 fbp_issued, fbp_served>>
  /\ UNCHANGED <<engineVars, backendVars, callVars, poolVars, projVars,
                 napariVars, roiVars, accVars>>

\* the `with self._lock:` block of _process_pending_batch.  threading.Lock is
\* not reentrant: the thread waits while anyone holds it, itself included.
TakePendingBatch(t) ==
  /\ fbp_pc[t] = "process_lock"
  /\ fbp_lock = NoThread
  /\ IF fbp_pending_items = <<>>
       THEN /\ fbp_pc' = [fbp_pc EXCEPT ![t] = "idle"]
            /\ UNCHANGED <<fbp_pending_items, fbp_first_item_time, fbp_timer,
                           fbp_taken>>
       ELSE /\ fbp_taken' = [fbp_taken EXCEPT ![t] = fbp_pending_items]
            /\ fbp_pending_items' = <<>>
            /\ fbp_timer' = NoTimer
            /\ fbp_first_item_time' = NoTime
            /\ fbp_pc' = [fbp_pc EXCEPT ![t] = "call_server"]
  /\ UNCHANGED <<fbp_batch_size, fbp_debounce_delay, fbp_max_wait, fbp_lock,
                 fbp_timerState, fbp_timerDeadline, fbp_now, fbp_inAdd,
                 fbp_issued, fbp_served>>
  /\ UNCHANGED <<engineVars, backendVars, callVars, poolVars, projVars,
                 napariVars, roiVars, accVars>>

\* self.fiji_server._process_items_from_batch(items=items, ...), outside the
\* lock of _process_pending_batch
ServerCall(t) ==
  /\ fbp_pc[t] = "call_server"
  /\ fbp_served' = Append(fbp_served, fbp_taken[t])
  /\ fbp_pc' = [fbp_pc EXCEPT ![t] = "in_server"]
  /\ UNCHANGED <<fbp_batch_size, fbp_debounce_delay, fbp_max_wait, fbp_lock,
                 fbp_pending_items, fbp_first_item_time, fbp_timer,
                 fbp_timerState, fbp_timerDeadline, fbp_now, fbp_inAdd,
                 fbp_taken, fbp_issued>>
  /\ UNCHANGED <<engineVars, backendVars, callVars, poolVars, projVars,
                 napariVars, roiVars, accVars>>

\* the server returns or raises (caught and logged), and
\* _process_pending_batch returns; inside add_items the `with` block ends
ServerReturn(t) ==
  /\ fbp_pc[t] = "in_server"
  /\ fbp_pc' = [fbp_pc EXCEPT ![t] = "idle"]
  /\ fbp_taken' = [fbp_taken EXCEPT ![t] = <<>>]
  /\ fbp_lock' = IF fbp_inAdd[t] THEN NoThread ELSE fbp_lock
  /\ fbp_inAdd' = [fbp_inAdd EXCEPT ![t] = FALSE]
  /\ UNCHANGED <<fbp_batch_size, fbp_debounce_delay, fbp_max_wait,
                 fbp_pending_items, fbp_first_item_time, fbp_timer,
                 fbp_timerState, fbp_timerDeadline, fbp_now, fbp_issued,
                 fbp_served>>
  /\ UNCHANGED <<engineVars, backendVars, callVars, poolVars, projVars,
                 napariVars, roiVars, accVars>>

\* the clock advances: a due timer fires first, and the processor's own
\* steps take no time (only the server's work runs for long)
FbpTick ==
  /\ fbp_now < MaxTime
  /\ \A k \in TimerIds :
       fbp_timerState[k] = "live" => fbp_timerDeadline[k] > fbp_now
  /\ \A t \in FbpThreads : fbp_pc[t] \in {"idle", "in_server"}
  /\ fbp_now' = fbp_now + 1
  /\ UNCHANGED <<fbp_batch_size, fbp_debounce_delay, fbp_max_wait, fbp_lock,
                 fbp_pending_items, fbp_first_item_time, fbp_timer,
                 fbp_timerState, fbp_timerDeadline, fbp_pc, fbp_inAdd,
                 fbp_taken, fbp_issued, fbp_served>>
  /\ UNCHANGED <<engineVars, backendVars, callVars, poolVars, projVars,
                 napariVars, roiVars, accVars>>

FijiBatchNext ==
  \/ \E t \in AddThreads, n \in 1..2 : AddItems(t, n)
  \/ \E k \in TimerIds : FbpTimerFire(k)
  \/ FbpTick
  \/ \E t \in FbpThreads : TakePendingBatch(t)
  \/ \E t \in FbpThreads : ServerCall(t)
  \/ \E t \in FbpThreads : ServerReturn(t)

(***************************************************************************)
(* Window projection and layer keys                                        *)
(*                                                                         *)
(* A string is the sequence of its pieces, "_" and "/" being pieces of     *)
(* their own: "/tmp/foo_results" is <<"/","tmp","/","foo","_","results">>. *)
(* A metadata value is held as str(value), which is how a key uses it.     *)
(***************************************************************************)
Modes == {"window", "slice", "stack", "channel", "frame"}

\* the component orders of scenario S1 and of the ROI test
OrderWell == <<"well", "channel", "z">>
OrderSource == <<"source", "well", "channel">>
ComponentOrders == {OrderWell, OrderSource}

\* the modes tried for a component under an order
ModeChoices(order, comp) ==
  IF order = OrderWell THEN Modes
  ELSE IF comp = "source" THEN {"window", "slice", "stack"}
  ELSE IF comp = "well" THEN {"window", "frame"}
  ELSE {"channel"}
ModeMaps(order) ==
  {m \in [Range(order) -> Modes] :
     \A c \in Range(order) : m[c] \in ModeChoices(order, c)}

\* display configs as a receiver may get them: the keys of component_modes
\* are the names of component_order, or one name is missing, or there is
\* one more key ("t", a component that is not in the order)
ConfigModes == {"window", "slice"}
ConfigMaps(order) ==
  LET full == [Range(order) -> ConfigModes]
  IN full
       \cup {[c \in Range(order) \ {x} |-> m[c]] :
               m \in full, x \in Range(order)}
       \cup {[c \in Range(order) \cup {"t"} |->
                IF c = "t" THEN e ELSE m[c]] :
               m \in full, e \in ConfigModes}

\* no build_layer_key / get_by_mode / collect_values call was made
AccessorIdle ==
  /\ cfg_layer_key = "none"
  /\ cfg_get_by_mode = <<"none">>
  /\ cfg_fields = {}
  /\ accessor = "none"
  /\ acc_items = <<>>
  /\ acc_names = <<>>
  /\ acc_result = <<"none">>

\* an accessor was built, from a dict with both keys, over an empty list
AccessorBuilt ==
  /\ cfg_layer_key = "none"
  /\ cfg_get_by_mode = <<"none">>
  /\ cfg_fields = {"component_modes", "component_order"}
  /\ accessor = "built"
  /\ acc_items = <<>>
  /\ acc_names = <<>>
  /\ acc_result = <<"none">>

\* images_dir: None (or ""), "/my/plate/images", "plate/"
NoDir == <<>>
ImagesDirs(order) ==
  IF order = OrderWell THEN {NoDir}
  ELSE {NoDir, <<"/", "my", "/", "plate", "/", "images">>, <<"plate", "/">>}

Image(meta) == [data_type |-> "image", metadata |-> meta]
Rois(meta) == [data_type |-> "rois", metadata |-> meta]
WellMeta(w, c, z) == ("well" :> w) @@ ("channel" :> c) @@ ("z" :> z)
SourceMeta(s) == ("source" :> s) @@ ("well" :> <<"A01">>) @@ ("channel" :> <<"1">>)
SyntheticSource == <<"/", "tmp", "/", "foo", "_", "results">>

\* the items a batch is made of, per component order
ItemChoices(order) ==
  IF order = OrderWell
    THEN { Image(WellMeta(<<"A01">>, <<"1">>, <<"0">>)),
           Image(WellMeta(<<"A01">>, <<"1">>, <<"1">>)),
           Image(WellMeta(<<"A01">>, <<"2">>, <<"0">>)),
           Image(WellMeta(<<"B02">>, <<"1">>, <<"0">>)),
           Image(WellMeta(<<"0">>, <<"1">>, <<"0">>)),
           Image(("channel" :> <<"1">>) @@ ("z" :> <<"0">>)) }
    ELSE { Rois(SourceMeta(SyntheticSource)),
           Rois(SourceMeta(<<"foo", "_", "results">>)),
           Rois(SourceMeta(<<"step", "_", "1">>)),
           Rois(("well" :> <<"A01">>) @@ ("channel" :> <<"1">>)),
           Image(SourceMeta(SyntheticSource)),
           Image(SourceMeta(<<"step", "_", "1">>)),
           Image(SourceMeta(<<"images">>)) }

\* an item whose well value contains "_": the well is "A01_channel_1",
\* and the metadata has no channel
UnderscoreItems(order) ==
  IF order = OrderWell
    THEN { Image(("well" :> <<"A01", "_", "channel", "_", "1">>)
                   @@ ("z" :> <<"0">>)) }
    ELSE {}

\* `sub in text` on str
ContainsStr(text, sub) ==
  \E o \in 0..(Len(text) - Len(sub)) :
    \A i \in 1..Len(sub) : text[o + i] = sub[i]

\* Path(images_dir).name: the part after the last "/", trailing "/" dropped
RECURSIVE StripTrailingSlash(_)
StripTrailingSlash(path) ==
  IF path # <<>> /\ path[Len(path)] = "/"
    THEN StripTrailingSlash(SubSeq(path, 1, Len(path) - 1))
    ELSE path
RECURSIVE LastSegment(_)
LastSegment(path) ==
  IF path = <<>> \/ path[Len(path)] = "/" THEN <<>>
  ELSE Append(LastSegment(SubSeq(path, 1, Len(path) - 1)), path[Len(path)])
PathName(path) == LastSegment(StripTrailingSlash(path))

\* _default_normalizer(component_name, value, item, images_dir)
Normalizer_every_type(component_name, value, item, dir) ==
  IF component_name = "source" /\ dir # NoDir
     /\ (ContainsStr(value, <<"_", "results">>) \/ ContainsStr(value, <<"/">>))
    THEN PathName(dir)
    ELSE value
Normalizer(component_name, value, item, dir) ==
  IF component_name = "source" /\ dir # NoDir /\ item.data_type = "rois"
     /\ (ContainsStr(value, <<"_", "results">>) \/ ContainsStr(value, <<"/">>))
    THEN PathName(dir)
    ELSE value

\* f"{comp}_{value}"
FormatPart(comp, value) == <<comp, "_">> \o value

\* "_".join(parts)
RECURSIVE JoinParts(_)
JoinParts(parts) ==
  IF Len(parts) = 0 THEN <<>>
  ELSE IF Len(parts) = 1 THEN parts[1]
  ELSE parts[1] \o <<"_">> \o JoinParts(Tail(parts))

\* the loop `for comp in window_components` of one item: fixed_labels, the
\* (comp, value) pairs of the components the metadata has
RECURSIVE FixedLabels(_, _, _)
FixedLabels(item, comps, dir) ==
  IF comps = <<>> THEN <<>>
  ELSE IF Head(comps) \notin DOMAIN item.metadata
    THEN FixedLabels(item, Tail(comps), dir)
  ELSE << <<Head(comps),
            Normalizer(Head(comps), item.metadata[Head(comps)], item, dir)>> >>
       \o FixedLabels(item, Tail(comps), dir)

\* key_parts: one f"{comp}_{value}" per fixed label
KeyParts(labels) ==
  [i \in 1..Len(labels) |-> FormatPart(labels[i][1], labels[i][2])]

\* window_key = "_".join(key_parts) if key_parts else "default_window"
DefaultWindow == <<"default", "_", "window">>
WindowKeyOf_unjoined(parts) ==
  IF parts # <<>> THEN Concat(parts) ELSE DefaultWindow
WindowKeyOf(parts) ==
  IF parts # <<>> THEN JoinParts(parts) ELSE DefaultWindow

\* the dict `result` before the loop over component_order
EmptyResult == [m \in {"window", "channel", "slice", "frame"} |-> <<>>]

\* result[mode].append(comp_name) for every name of component_order
RECURSIVE ProjectedModes(_, _, _)
ProjectedModes(result, order, modes) ==
  IF order = <<>> THEN result
  ELSE ProjectedModes(
         [result EXCEPT ![modes[Head(order)]] = Append(@, Head(order))],
         Tail(order), modes)

\* windows.setdefault(window_key, []).append(item)
WindowsAfterAppend_replaced(windows, key, item) ==
  [k \in DOMAIN windows \cup {key} |->
     IF k = key THEN <<item>> ELSE windows[k]]
WindowsAfterAppend(windows, key, item) ==
  [k \in DOMAIN windows \cup {key} |->
     IF k = key
       THEN (IF key \in DOMAIN windows THEN Append(windows[key], item)
             ELSE <<item>>)
       ELSE windows[k]]

ProjInitWith(order, modes, dir) ==
  /\ component_order = order
  /\ component_modes = modes
  /\ images_dir = dir
  /\ g_pc = "start"
  /\ g_items = <<>>
  /\ g_result = EmptyResult
  /\ g_windows = << >>
  /\ g_labels = << >>
  /\ g_first = << >>
  /\ g_ncalls = 1
  /\ component_info = << >>
  /\ layer_keys = << >>
  /\ layer_key_again = << >>

\* group_items_by_component_modes up to the loop over the items: the modes
\* are projected; a name that is no key of component_modes, or a mode that
\* is no key of `result`, raises KeyError
ProjectModes ==
  /\ g_pc = "start"
  /\ IF \A c \in Range(component_order) :
          /\ c \in DOMAIN component_modes
          /\ component_modes[c] \in DOMAIN EmptyResult
       THEN /\ g_result' =
                 ProjectedModes(EmptyResult, component_order, component_modes)
            /\ g_pc' = "loop"
       ELSE /\ g_pc' = "raised"
            /\ UNCHANGED g_result
  /\ UNCHANGED <<component_order, component_modes, images_dir, g_items,
                 g_windows, g_labels, g_first, g_ncalls, component_info,
                 layer_keys, layer_key_again>>
  /\ UNCHANGED <<engineVars, backendVars, callVars, poolVars, fbpVars,
                 napariVars, roiVars, accVars>>

\* one iteration of `for item in items`, item being the next of the list
GroupItem(item) ==
  /\ g_pc = "loop"
  /\ Len(g_items) < MaxGroupItems
  /\ item \in ItemChoices(component_order)
               \cup UnderscoreItems(component_order)
  /\ LET labels == FixedLabels(item, g_result["window"], images_dir)
         window_key == WindowKeyOf(KeyParts(labels))
     IN /\ g_windows' = WindowsAfterAppend(g_windows, window_key, item)
        /\ g_labels' =
             IF window_key \in DOMAIN g_labels THEN g_labels
             ELSE [k \in DOMAIN g_labels \cup {window_key} |->
                     IF k = window_key THEN labels ELSE g_labels[k]]
  /\ g_items' = Append(g_items, item)
  /\ UNCHANGED <<component_order, component_modes, images_dir, g_pc,
                 g_result, g_first, g_ncalls, component_info, layer_keys,
                 layer_key_again>>
  /\ UNCHANGED <<engineVars, backendVars, callVars, poolVars, fbpVars,
                 napariVars, roiVars, accVars>>

\* `return GroupedWindowItems(windows=windows, fixed_window_labels=...)`
GroupReturn ==
  /\ g_pc = "loop"
  /\ g_pc' = "returned"
  /\ g_first' =
       IF g_first = << >>
         THEN << [order |-> component_order, modes |-> component_modes,
                  dir |-> images_dir, items |-> g_items,
                  windows |-> g_windows, labels |-> g_labels] >>
         ELSE g_first
  /\ UNCHANGED <<component_order, component_modes, images_dir, g_items,
                 g_result, g_windows, g_labels, g_ncalls, component_info,
                 layer_keys, layer_key_again>>
  /\ UNCHANGED <<engineVars, backendVars, callVars, poolVars, fbpVars,
                 napariVars, roiVars, accVars>>

\* the dicts `windows` and `fixed_window_labels` are locals, made empty by
\* every call
NewWindows_kept(windows) == windows
NewWindows(windows) == << >>

\* the arguments of the calls made one after the other
CallConfigs ==
  { <<OrderWell, [c \in Range(OrderWell) |-> "window"], NoDir>>,
    <<OrderWell,
      ("well" :> "window") @@ ("channel" :> "channel") @@ ("z" :> "slice"),
      NoDir>>,
    <<OrderSource,
      ("source" :> "window") @@ ("well" :> "window")
        @@ ("channel" :> "channel"),
      NoDir>>,
    <<OrderSource,
      ("source" :> "window") @@ ("well" :> "window")
        @@ ("channel" :> "channel"),
      <<"/", "my", "/", "plate", "/", "images">> >> }
CallItems ==
  { Image(WellMeta(<<"A01">>, <<"1">>, <<"0">>)),
    Image(WellMeta(<<"B02">>, <<"1">>, <<"0">>)),
    Rois(SourceMeta(SyntheticSource)),
    Image(SourceMeta(<<"images">>)) }

\* one more call of group_items_by_component_modes, after the last returned
GroupCall(cfg) ==
  /\ g_pc = "returned"
  /\ g_ncalls < MaxGroupCalls
  /\ g_ncalls' = g_ncalls + 1
  /\ component_order' = cfg[1]
  /\ component_modes' = cfg[2]
  /\ images_dir' = cfg[3]
  /\ g_pc' = "start"
  /\ g_items' = << >>
  /\ g_result' = EmptyResult
  /\ g_windows' = NewWindows(g_windows)
  /\ g_labels' = << >>
  /\ UNCHANGED <<g_first, component_info, layer_keys, layer_key_again>>
  /\ UNCHANGED <<engineVars, backendVars, callVars, poolVars, fbpVars,
                 napariVars, roiVars, accVars>>

\* calls of group_items_by_component_modes one after the other
GroupCallsNext ==
  \/ ProjectModes
  \/ \E item \in CallItems : GroupItem(item)
  \/ GroupReturn
  \/ \E cfg \in CallConfigs : GroupCall(cfg)

\* grouping of items whose values may contain "_"
LabelsNext ==
  \/ ProjectModes
  \/ \E order \in ComponentOrders :
       \E item \in ItemChoices(order) \cup UnderscoreItems(order) :
         GroupItem(item)

ProjectionNext ==
  \/ ProjectModes
  \/ \E order \in ComponentOrders : \E item \in ItemChoices(order) :
       GroupItem(item)

\* StreamingDataType members build_layer_key tells apart
DataTypes == {"IMAGE", "SHAPES", "POINTS"}

\* the component_info values tried: the metadata of the items, and one
\* without the z component
InfoChoices(order) ==
  {it.metadata : it \in ItemChoices(order)}
    \cup (IF order = OrderWell
            THEN {("well" :> <<"A01">>) @@ ("channel" :> <<"1">>)}
            ELSE {})

\* layer_key_parts: one part per slice-mode component of component_order
\* that component_info has
RECURSIVE LayerKeyParts_any_mode(_, _, _)
LayerKeyParts_any_mode(info, order, modes) ==
  IF order = <<>> THEN <<>>
  ELSE IF Head(order) \in DOMAIN info
    THEN <<FormatPart(Head(order), info[Head(order)])>>
         \o LayerKeyParts_any_mode(info, Tail(order), modes)
  ELSE LayerKeyParts_any_mode(info, Tail(order), modes)
RECURSIVE LayerKeyParts(_, _, _)
LayerKeyParts(info, order, modes) ==
  IF order = <<>> THEN <<>>
  ELSE IF modes[Head(order)] = "slice" /\ Head(order) \in DOMAIN info
    THEN <<FormatPart(Head(order), info[Head(order)])>>
         \o LayerKeyParts(info, Tail(order), modes)
  ELSE LayerKeyParts(info, Tail(order), modes)

DefaultLayer == <<"default", "_", "layer">>

\* the suffix build_layer_key appends for the payload type
LayerSuffix_none(data_type) == <<>>
LayerSuffix(data_type) ==
  IF data_type = "SHAPES" THEN <<"_", "shapes">>
  ELSE IF data_type = "POINTS" THEN <<"_", "points">>
  ELSE <<>>

\* build_layer_key(component_info, component_modes, component_order, data_type)
LayerKey(info, modes, order, data_type) ==
  LET parts == LayerKeyParts(info, order, modes)
      layer_key == IF parts # <<>> THEN JoinParts(parts) ELSE DefaultLayer
  IN layer_key \o LayerSuffix(data_type)

\* a caller turns to another component_info
NextInfo(info) ==
  /\ info \in InfoChoices(component_order)
  /\ info # component_info
  /\ component_info' = info
  /\ layer_keys' = << >>
  /\ layer_key_again' = << >>
  /\ UNCHANGED <<component_order, component_modes, images_dir, g_pc,
                 g_items, g_result, g_windows, g_labels, g_first, g_ncalls>>
  /\ UNCHANGED <<engineVars, backendVars, callVars, poolVars, fbpVars,
                 napariVars, roiVars, accVars>>

\* `mode = component_modes[component]` runs for every name of
\* component_order: a name that is no key raises KeyError
LayerKeyRaises(order, modes) ==
  \E i \in 1..Len(order) : order[i] \notin DOMAIN modes

\* one call of build_layer_key for the current component_info
BuildLayerKey(data_type) ==
  /\ component_info \in InfoChoices(component_order)
  /\ data_type \notin DOMAIN layer_keys
  /\ IF LayerKeyRaises(component_order, component_modes)
       THEN /\ cfg_layer_key' = "KeyError"
            /\ UNCHANGED layer_keys
       ELSE /\ cfg_layer_key' = "returned"
            /\ layer_keys' =
                 [d \in DOMAIN layer_keys \cup {data_type} |->
                    IF d = data_type
                      THEN LayerKey(component_info, component_modes,
                                    component_order, data_type)
                      ELSE layer_keys[d]]
  /\ UNCHANGED <<component_order, component_modes, images_dir, g_pc,
                 g_items, g_result, g_windows, g_labels, g_first, g_ncalls,
                 component_info, layer_key_again>>
  /\ UNCHANGED <<cfg_get_by_mode, cfg_fields, accessor, acc_items,
                 acc_names, acc_result>>
  /\ UNCHANGED <<engineVars, backendVars, callVars, poolVars, fbpVars,
                 napariVars, roiVars>>

\* the top-level keys a display config dict may have
ConfigFields == {"component_modes", "component_order"}
FieldChoices == SUBSET ConfigFields

\* __post_init__: either key missing raises ValueError
PostInitRaises_never(fields) == FALSE
PostInitRaises(fields) ==
  \/ "component_modes" \notin fields
  \/ "component_order" \notin fields

\* GenericComponentAccessor(display_config, items), on a dict with the keys
\* `fields` (their values are component_modes and component_order)
NewAccessor(fields) ==
  /\ accessor = "none"
  /\ cfg_fields' = fields
  /\ accessor' = IF PostInitRaises(fields) THEN "ValueError" ELSE "built"
  /\ UNCHANGED <<cfg_layer_key, cfg_get_by_mode, acc_items, acc_names,
                 acc_result>>
  /\ UNCHANGED projVars
  /\ UNCHANGED <<engineVars, backendVars, callVars, poolVars, fbpVars,
                 napariVars, roiVars>>

\* accessor.get_by_mode(mode) of an accessor that was built: the names c of
\* the order with component_modes.get(c) == mode
ModeOrNone(modes, c) == IF c \in DOMAIN modes THEN modes[c] ELSE "None"
GetByMode(mode) ==
  /\ accessor = "built"
  /\ cfg_get_by_mode = <<"none">>
  /\ cfg_get_by_mode' =
       <<"returned",
         SelectSeq(component_order,
                   LAMBDA c : ModeOrNone(component_modes, c) = mode),
         mode>>
  /\ UNCHANGED <<cfg_layer_key, cfg_fields, accessor, acc_items, acc_names,
                 acc_result>>
  /\ UNCHANGED projVars
  /\ UNCHANGED <<engineVars, backendVars, callVars, poolVars, fbpVars,
                 napariVars, roiVars>>

\* ---- GenericComponentAccessor.collect_values ----
\* metadata values are Python ints or strs; a str is the sequence of its
\* character codes
IntValue(n) == <<"int", n>>
StrValue(codes) == <<"str", codes>>
StrA == StrValue(<<65>>)
StrA1 == StrValue(<<65, 49>>)
StrB == StrValue(<<66>>)

\* the metadata of the items an accessor is built over: wells named by a
\* string or numbered, z indices, and items that lack one of the two
AccessorItems ==
  { ("well" :> StrA) @@ ("z" :> IntValue(0)),
    ("well" :> StrA) @@ ("z" :> IntValue(1)),
    ("well" :> StrB) @@ ("z" :> IntValue(0)),
    ("well" :> StrA1),
    ("z" :> IntValue(1)),
    ("well" :> IntValue(2)) @@ ("z" :> IntValue(0)) }
AccessorNames == {<<"well">>, <<"z">>, <<"well", "z">>, <<"z", "well">>}

\* get_value(item, component_name): metadata.get(component_name, 0)
GetValue(meta, name) ==
  IF name \in DOMAIN meta THEN meta[name] ELSE IntValue(0)

\* tuple(self.get_value(item, comp) for comp in component_names)
ValueTuple(meta, names) == [i \in 1..Len(names) |-> GetValue(meta, names[i])]

\* values_set after the loop over self._items
ValuesSet(items, names) ==
  {ValueTuple(items[i], names) : i \in 1..Len(items)}

\* `<` on str: lexicographic on the character codes
RECURSIVE StrLess(_, _)
StrLess(a, b) ==
  IF b = <<>> THEN FALSE
  ELSE IF a = <<>> THEN TRUE
  ELSE IF Head(a) # Head(b) THEN Head(a) < Head(b)
  ELSE StrLess(Tail(a), Tail(b))

\* `<` on two values: defined between two ints and between two strs;
\* between an int and a str it raises TypeError
SameType(x, y) == x[1] = y[1]
ValueLess(x, y) ==
  IF x[1] = "int" THEN x[2] < y[2] ELSE StrLess(x[2], y[2])

\* `<` on two tuples of one length: the first position where they differ
\* decides, and the two values there are compared with `<`
FirstDifference(a, b) ==
  CHOOSE i \in 1..Len(a) :
    a[i] # b[i] /\ \A j \in 1..(i - 1) : a[j] = b[j]
TupleComparable(a, b) ==
  a = b \/ SameType(a[FirstDifference(a, b)], b[FirstDifference(a, b)])
TupleLess(a, b) ==
  a # b /\ ValueLess(a[FirstDifference(a, b)], b[FirstDifference(a, b)])

\* sorted(values_set) raises TypeError when two of the tuples cannot be
\* compared: no tuple can lie between two such tuples, so that the sort
\* has to compare them with each other
SortRaises(tuples) ==
  \E a \in tuples, b \in tuples : ~TupleComparable(a, b)

\* sorted(values_set) when every comparison is defined
RECURSIVE Sorted(_)
Sorted(tuples) ==
  IF tuples = {} THEN <<>>
  ELSE LET least == CHOOSE a \in tuples :
                      \A b \in tuples \ {a} : TupleLess(a, b)
       IN <<least>> \o Sorted(tuples \ {least})

\* what collect_values(component_names) gives back over the items
CollectedValues(items, names) ==
  IF SortRaises(ValuesSet(items, names)) THEN <<"TypeError">>
  ELSE <<"returned", Sorted(ValuesSet(items, names))>>

\* an accessor is built over a list that has one more item
AccessorAddItem(meta) ==
  /\ accessor = "built"
  /\ Len(acc_items) < MaxGroupItems
  /\ acc_items' = Append(acc_items, meta)
  /\ acc_names' = <<>>
  /\ acc_result' = <<"none">>
  /\ UNCHANGED <<cfg_layer_key, cfg_get_by_mode, cfg_fields, accessor>>
  /\ UNCHANGED projVars
  /\ UNCHANGED <<engineVars, backendVars, callVars, poolVars, fbpVars,
                 napariVars, roiVars>>

\* accessor.collect_values(component_names)
CollectValues(names) ==
  /\ accessor = "built"
  /\ acc_result = <<"none">>
  /\ acc_names' = names
  /\ acc_result' = CollectedValues(acc_items, names)
  /\ UNCHANGED <<cfg_layer_key, cfg_get_by_mode, cfg_fields, accessor,
                 acc_items>>
  /\ UNCHANGED projVars
  /\ UNCHANGED <<engineVars, backendVars, callVars, poolVars, fbpVars,
                 napariVars, roiVars>>

AccessorNext ==
  \/ \E meta \in AccessorItems : AccessorAddItem(meta)
  \/ \E names \in AccessorNames : CollectValues(names)

\* the three consumers of a display config, each called on the config
ConfigNext ==
  \/ ProjectModes
  \/ \E order \in ComponentOrders : \E info \in InfoChoices(order) :
       NextInfo(info)
  \/ \E data_type \in DataTypes : BuildLayerKey(data_type)
  \/ \E fields \in FieldChoices : NewAccessor(fields)
  \/ \E mode \in Modes : GetByMode(mode)

\* one more call of build_layer_key with the same component_modes and
\* component_order, for a payload type that has a key: on the same
\* component_info or on another one
BuildLayerKeyAgain(info, data_type) ==
  /\ info \in InfoChoices(component_order)
  /\ component_info \in InfoChoices(component_order)
  /\ data_type \in DOMAIN layer_keys
  /\ layer_key_again = << >>
  /\ ~LayerKeyRaises(component_order, component_modes)
  /\ layer_key_again' =
       <<info, data_type,
         LayerKey(info, component_modes, component_order, data_type)>>
  /\ UNCHANGED <<component_order, component_modes, images_dir, g_pc,
                 g_items, g_result, g_windows, g_labels, g_first, g_ncalls,
                 component_info, layer_keys>>
  /\ UNCHANGED <<engineVars, backendVars, callVars, poolVars, fbpVars,
                 napariVars, roiVars, accVars>>

ReprojectNext ==
  \/ \E order \in ComponentOrders : \E info \in InfoChoices(order) :
       NextInfo(info)
  \/ \E data_type \in DataTypes : BuildLayerKey(data_type)
  \/ \E order \in ComponentOrders : \E info \in InfoChoices(order) :
       \E data_type \in DataTypes : BuildLayerKeyAgain(info, data_type)

LayerKeyNext ==
  \/ \E order \in ComponentOrders : \E info \in InfoChoices(order) :
       NextInfo(info)
  \/ \E data_type \in DataTypes : BuildLayerKey(data_type)

\* save_batch called with well-formed and ill-formed arguments
SaveBatchNext ==
  \/ \E n \in BatchSizes, d \in Dests, input \in InputChoices :
       SaveBatchCall(n, d, input)
  \/ \E result \in {"ok", "early", "late"} : PrepareItem(result)
  \/ \E ok \in BOOLEAN : BuildMessage(ok)
  \/ \E result \in {"ok", "again", "error"} : Send(result)
  \/ \E ok \in BOOLEAN : Register(ok)
  \/ CloseHandles

BackendNext ==
  \/ \E n \in BatchSizes, d \in Dests : SaveBatchCall(n, d, GoodInput)
  \/ \E result \in {"ok", "early", "late"} : PrepareItem(result)
  \/ \E ok \in BOOLEAN : BuildMessage(ok)
  \/ \E result \in {"ok", "again", "error"} : Send(result)
  \/ \E ok \in BOOLEAN : Register(ok)
  \/ CloseHandles
  \/ \E fail \in FailureChoices : Cleanup(fail)
  \/ Receive
  \/ Lose
  \/ \E i \in BufferIds : MarkAck(i)

\* producer threads fetching publishers from one backend, and cleanup()
PublisherNext ==
  \/ \E t \in ProducerThreads, key \in Dests : GetPublisherCheck(t, key)
  \/ \E t \in ProducerThreads : GetPublisherContext(t)
  \/ \E t \in ProducerThreads : GetPublisherNewContext(t)
  \/ \E t \in ProducerThreads : GetPublisherSocket(t)
  \/ \E t \in ProducerThreads : GetPublisherInsert(t)
  \/ \E fail \in FailureChoices : Cleanup(fail)

\* NapariBatchProcessor.__init__: batch_size is stored, and the engine is
\* built from the two delays
NapariInitWith(size) == nbp_batch_size = size

\* NapariBatchProcessor.add_items(layer_key, items, ...): the whole body is
\* self._engine.enqueue(items=items, context={...})
NapariAddItems(t, n) == Enqueue(t, n)

\* NapariBatchProcessor.flush(): self._engine.flush()
NapariFlush(t) == FlushCall(t)

\* NapariBatchProcessor._process_batch, the engine's process_fn: it calls
\* self.napari_server._display_layer_batch(...)
DisplayLayerBatch(t) == ProcessCall(t)

NapariBatchNext ==
  \/ \E t \in EnqueueThreads, n \in 1..2 : NapariAddItems(t, n)
  \/ \E t \in FlushThreads : NapariFlush(t)
  \/ \E k \in TimerIds : TimerFire(k)
  \/ \E t \in Threads : Drain(t)
  \/ \E t \in Threads : DisplayLayerBatch(t)
  \/ \E t \in Threads, result \in ProcessResults : ProcessReturn(t, result)
  \/ Tick

EngineNext ==
  \/ \E t \in EnqueueThreads, n \in 1..2 : Enqueue(t, n)
  \/ \E t \in FlushThreads : FlushCall(t)
  \/ \E k \in TimerIds : TimerFire(k)
  \/ \E t \in Threads : Drain(t)
  \/ \E t \in Threads : ProcessCall(t)
  \/ \E t \in Threads, result \in ProcessResults : ProcessReturn(t, result)
  \/ Tick

\* no projection call in progress
ProjIdle ==
  ProjInitWith(OrderWell, [c \in Range(OrderWell) |-> "window"], NoDir)

\* the engine with no explicit flush() call: enqueue calls and timers only
EngineLiveNext ==
  \/ \E t \in EnqueueThreads, n \in 1..2 : Enqueue(t, n)
  \/ \E k \in TimerIds : TimerFire(k)
  \/ \E t \in Threads : Drain(t)
  \/ \E t \in Threads : ProcessCall(t)
  \/ \E t \in Threads, result \in ProcessResults : ProcessReturn(t, result)
  \/ Tick

\* time passes, a timer that is due and not cancelled fires, a thread that
\* wants the lock gets it once it is free, and process_fn returns or raises
EngineFairness ==
  /\ WF_vars(Tick)
  /\ \A k \in TimerIds : WF_vars(TimerFire(k))
  /\ \A t \in Threads :
       /\ WF_vars(Drain(t))
       /\ WF_vars(ProcessCall(t))
       /\ WF_vars(\E result \in ProcessResults : ProcessReturn(t, result))

(***************************************************************************)
(* FijiROIHandler.handle                                                   *)
(***************************************************************************)
NoImageId == 0
\* the ROI items of a batch: `rois` is the length of the encoded ROI list,
\* `image_id` the id of the item at position i, or missing
RoiCounts == {0, 2}
RoiItemChoices(i) ==
  {[rois |-> n, image_id |-> id] : n \in RoiCounts, id \in {NoImageId, i}}
RoiBatches ==
  UNION {{items \in [1..n -> UNION {RoiItemChoices(i) : i \in 1..n}] :
            \A i \in 1..n : items[i] \in RoiItemChoices(i)} :
         n \in 0..MaxRoiItems}

RoiIdle ==
  /\ roi_items = << >>
  /\ roi_pc = "idle"
  /\ roi_index = 1
  /\ roi_acks = << >>
  /\ rm_rois = 0

\* handle(context) up to the loop: the RoiManager, the group id and the
\* component values are fetched
HandleCall(items) ==
  /\ roi_pc = "idle"
  /\ roi_items' = items
  /\ roi_index' = 1
  /\ roi_pc' = IF items = << >> THEN "done" ELSE "loop"
  /\ UNCHANGED <<roi_acks, rm_rois>>
  /\ UNCHANGED <<engineVars, backendVars, callVars, poolVars, fbpVars,
                 projVars, napariVars, accVars>>

\* the ids acked after the iteration over roi_item: an item with an empty
\* ROI list and an image id is acked, and the loop goes on to the next
AcksAfterItem(acks, roi_item) ==
  IF roi_item.rois = 0 /\ roi_item.image_id # NoImageId
    THEN Append(acks, roi_item.image_id)
    ELSE acks

\* one iteration of `for roi_item in roi_data.items`
HandleItem ==
  /\ roi_pc = "loop"
  /\ LET roi_item == roi_items[roi_index]
     IN /\ roi_acks' = AcksAfterItem(roi_acks, roi_item)
        /\ rm_rois' = rm_rois + roi_item.rois
  /\ roi_index' = roi_index + 1
  /\ roi_pc' = IF roi_index = Len(roi_items) THEN "done" ELSE "loop"
  /\ UNCHANGED roi_items
  /\ UNCHANGED <<engineVars, backendVars, callVars, poolVars, fbpVars,
                 projVars, napariVars, accVars>>

RoiHandlerNext ==
  \/ \E items \in RoiBatches : HandleCall(items)
  \/ HandleItem

\* the engine alone, the backend object untouched
InitEngine ==
  /\ \E delay \in DelayChoices, wait \in MaxWaitChoices :
       EngineInitWith(delay, wait)
  /\ BackendInitWith("fiji")
  /\ FbpInitWith(NoBatchSize, 2, 3)
  /\ ProjIdle
  /\ NapariInitWith(NoBatchSize)
  /\ RoiIdle
  /\ AccessorIdle

SpecEngine == InitEngine /\ [][EngineNext]_vars

SpecEngineLive == InitEngine /\ [][EngineLiveNext]_vars /\ EngineFairness

\* producer, transport and receiver, the engine untouched
InitBackend ==
  /\ \E cls \in Backends : BackendInitWith(cls)
  /\ EngineInitWith(2, 2)
  /\ FbpInitWith(NoBatchSize, 2, 3)
  /\ ProjIdle
  /\ NapariInitWith(NoBatchSize)
  /\ RoiIdle
  /\ AccessorIdle

SpecBackend == InitBackend /\ [][BackendNext]_vars

SpecSaveBatch == InitBackend /\ [][SaveBatchNext]_vars

\* the publisher pool of a Fiji backend used by several producer threads
InitPublisher ==
  /\ BackendInitWith("fiji")
  /\ EngineInitWith(2, 2)
  /\ FbpInitWith(NoBatchSize, 2, 3)
  /\ ProjIdle
  /\ NapariInitWith(NoBatchSize)
  /\ RoiIdle
  /\ AccessorIdle

SpecPublisher == InitPublisher /\ [][PublisherNext]_vars

\* a Napari batch processor around its engine
InitNapariBatch ==
  /\ \E size \in BatchSizeChoices : NapariInitWith(size)
  /\ RoiIdle
  /\ EngineInitWith(2, 3)
  /\ BackendInitWith("fiji")
  /\ FbpInitWith(NoBatchSize, 2, 3)
  /\ ProjIdle
  /\ AccessorIdle

SpecNapariBatch == InitNapariBatch /\ [][NapariBatchNext]_vars

\* the Fiji batch processor alone
InitFijiBatch ==
  /\ \E size \in BatchSizeChoices :
       \E delay \in DelayChoices, wait \in MaxWaitChoices :
         FbpInitWith(size, delay, wait)
  /\ EngineInitWith(2, 2)
  /\ BackendInitWith("fiji")
  /\ ProjIdle
  /\ NapariInitWith(NoBatchSize)
  /\ RoiIdle
  /\ AccessorIdle

SpecFijiBatch == InitFijiBatch /\ [][FijiBatchNext]_vars

\* the projection functions alone, on every layout and images_dir tried
InitProjection ==
  /\ \E order \in ComponentOrders :
       \E modes \in ModeMaps(order), dir \in ImagesDirs(order) :
         ProjInitWith(order, modes, dir)
  /\ EngineInitWith(2, 2)
  /\ BackendInitWith("fiji")
  /\ FbpInitWith(NoBatchSize, 2, 3)
  /\ NapariInitWith(NoBatchSize)
  /\ RoiIdle
  /\ AccessorIdle

SpecProjection == InitProjection /\ [][ProjectionNext]_vars

SpecLayerKey == InitProjection /\ [][LayerKeyNext]_vars

SpecLabels == InitProjection /\ [][LabelsNext]_vars

\* build_layer_key called again; it has no images_dir argument
InitReproject ==
  /\ \E order \in ComponentOrders : \E modes \in ModeMaps(order) :
       ProjInitWith(order, modes, NoDir)
  /\ EngineInitWith(2, 2)
  /\ BackendInitWith("fiji")
  /\ FbpInitWith(NoBatchSize, 2, 3)
  /\ NapariInitWith(NoBatchSize)
  /\ RoiIdle
  /\ AccessorIdle

SpecReproject == InitReproject /\ [][ReprojectNext]_vars

\* group_items_by_component_modes called several times
InitGroupCalls ==
  /\ \E cfg \in CallConfigs : ProjInitWith(cfg[1], cfg[2], cfg[3])
  /\ EngineInitWith(2, 2)
  /\ BackendInitWith("fiji")
  /\ FbpInitWith(NoBatchSize, 2, 3)
  /\ NapariInitWith(NoBatchSize)
  /\ RoiIdle
  /\ AccessorIdle

SpecGroupCalls == InitGroupCalls /\ [][GroupCallsNext]_vars

\* the consumers of a display config, on well-formed and ill-formed configs
InitConfig ==
  /\ \E order \in ComponentOrders : \E modes \in ConfigMaps(order) :
       ProjInitWith(order, modes, NoDir)
  /\ EngineInitWith(2, 2)
  /\ BackendInitWith("fiji")
  /\ FbpInitWith(NoBatchSize, 2, 3)
  /\ NapariInitWith(NoBatchSize)
  /\ RoiIdle
  /\ AccessorIdle

SpecConfig == InitConfig /\ [][ConfigNext]_vars

\* an accessor over item lists of every order
InitAccessor ==
  /\ AccessorBuilt
  /\ ProjIdle
  /\ EngineInitWith(2, 2)
  /\ BackendInitWith("fiji")
  /\ FbpInitWith(NoBatchSize, 2, 3)
  /\ NapariInitWith(NoBatchSize)
  /\ RoiIdle

\* FijiROIHandler.handle on batches of ROI items
InitRoiHandler ==
  /\ RoiIdle
  /\ AccessorIdle
  /\ ProjIdle
  /\ EngineInitWith(2, 2)
  /\ BackendInitWith("fiji")
  /\ FbpInitWith(NoBatchSize, 2, 3)
  /\ NapariInitWith(NoBatchSize)

SpecRoiHandler == InitRoiHandler /\ [][RoiHandlerNext]_vars

SpecAccessor == InitAccessor /\ [][AccessorNext]_vars

(***************************************************************************)
(* Properties of DebouncedBatchEngine                                      *)
(***************************************************************************)
Quiescent == \A t \in Threads : pc[t] = "idle"
Batches == [i \in 1..Len(drainedLog) |-> drainedLog[i].items]

\* C1: no item is handed to process_fn twice, every batch handed to
\* process_fn is a contiguous run of the enqueue sequence S in enqueue order,
\* the batches in drain order followed by what is still pending are S at any
\* time, and once every call has returned with nothing pending the drained
\* batches concatenate to exactly S and each of them reached process_fn.
C1_BatchesPartitionS ==
  /\ \A i \in 1..Len(processedLog) :
       /\ processedLog[i] # <<>>
       /\ IsRunOf(processedLog[i], S)
  /\ \A i, j \in 1..Len(processedLog) :
       \A a \in 1..Len(processedLog[i]), b \in 1..Len(processedLog[j]) :
         processedLog[i][a] = processedLog[j][b] => (i = j /\ a = b)
  /\ Concat(Batches) \o pending_items = S
  /\ (Quiescent /\ pending_items = <<>>) =>
       /\ Concat(Batches) = S
       /\ Len(processedLog) = Len(drainedLog)
       /\ \A i \in 1..Len(drainedLog) :
            \E j \in 1..Len(processedLog) : processedLog[j] = Batches[i]

\* C1 witness: every item of a full run was delivered, in several batches,
\* one of them holding more than one item
C1_Witness ==
  /\ Quiescent
  /\ pending_items = <<>>
  /\ Len(S) = MaxItems
  /\ Len(processedLog) >= 2
  /\ \E i \in 1..Len(processedLog) : Len(processedLog[i]) >= 2

\* C4: the engine lock is never held by a thread that is on its way into
\* process_fn or inside it, so a thread that waits for the lock in enqueue
\* never waits for process_fn to return.
C4_LockFreeWhileProcessing ==
  \A t \in Threads :
    pc[t] \in {"call_process", "in_process"} => lock # t

\* C4 witness: while a flush is inside process_fn, an enqueue has completed:
\* its item is pending and the enqueuing thread is back outside the engine
C4_Witness ==
  \E t \in Threads \ EnqueueThreads :
    /\ pc[t] = "in_process"
    /\ pending_items # <<>>
    /\ \A u \in EnqueueThreads : pc[u] = "idle"
    /\ lock = NoThread

\* C5: at most one timer is live (started, not cancelled, not yet fired).
C5_AtMostOneLiveTimer == Cardinality(LiveTimers) <= 1

\* C6: pending items are never older than max_wait: while items are pending
\* the time since the first enqueue of the batch is at most max_wait, the
\* timer the engine holds is due no later than first enqueue + max_wait and
\* no later than debounce_delay from now, and every batch was drained at an
\* age of at most max_wait.
C6_FlushedWithinMaxWait ==
  /\ pending_items # <<>> =>
       /\ first_enqueue_time # NoTime
       /\ now - first_enqueue_time <= max_wait
       /\ \/ \E t \in Threads : pc[t] = "flush_lock"
          \/ /\ timer # NoTimer
             /\ timerState[timer] = "live"
             /\ timerDeadline[timer] <= first_enqueue_time + max_wait
             /\ timerDeadline[timer] <= now + debounce_delay
  /\ \A i \in 1..Len(drainedLog) : drainedLog[i].age <= max_wait

\* C6 witness: enqueues kept arriving at intervals shorter than
\* debounce_delay and the batch was drained exactly max_wait after its first
\* enqueue
C6_Witness ==
  /\ debounce_delay < max_wait
  /\ \E i \in 1..Len(drainedLog) :
       /\ drainedLog[i].age = max_wait
       /\ Len(drainedLog[i].items) = MaxItems

\* C7: the thread that calls enqueue never executes process_fn.
C7_EnqueueNeverRunsProcessFn ==
  \A t \in Threads : pc[t] = "in_process" => ~inEnqueue[t]

\* C21: process_fn is never called with an empty item list; there are no
\* more calls of process_fn than drains that found items, every one of them
\* took all that was pending, and no item goes to process_fn twice: after
\* enqueue([1]) alone, however many flush() calls and timer firings follow,
\* process_fn has been called at most once, with [1], and exactly once when
\* every flush has returned with nothing pending.
C21_OneCallPerNonEmptyDrain ==
  /\ \A j \in 1..Len(processedLog) : processedLog[j] # <<>>
  /\ \A i \in 1..Len(drainedLog) : drainedLog[i].items # <<>>
  /\ Len(processedLog) <= Len(drainedLog)
  /\ Len(processedLog) <= Len(S)
  /\ \A i \in 1..Len(drainedLog) :
       \A x \in Range(pending_items), y \in Range(drainedLog[i].items) : y < x
  /\ S = <<1>> =>
       /\ \A j \in 1..Len(processedLog) : processedLog[j] = <<1>>
       /\ Len(processedLog) <= 1
       /\ (Quiescent /\ pending_items = <<>>) => processedLog = << <<1>> >>

\* C21 witness: [1] was enqueued and delivered by an explicit flush() before
\* the timer was due, the timer armed by the enqueue has fired since and its
\* flush has returned, and process_fn was called once
C21_Witness ==
  /\ S = <<1>>
  /\ processedLog = << <<1>> >>
  /\ drainedLog[1].age = 0
  /\ timerState[1] = "fired"
  /\ Quiescent

Delivered(i) == \E j \in 1..Len(processedLog) : i \in Range(processedLog[j])

\* C12: with no explicit flush() call, every item given to enqueue is
\* eventually passed to process_fn, and whenever items are pending and no
\* thread is inside enqueue, a live timer exists or a thread is on its way
\* to drain them.
C12_DeliveredWithoutFlush ==
  /\ [](( /\ pending_items # <<>>
          /\ \A t \in Threads : ~inEnqueue[t] )
        => ( \/ LiveTimers # {}
             \/ \E t \in Threads : pc[t] = "flush_lock" ))
  /\ \A i \in 1..MaxItems : (i \in Range(S)) ~> Delivered(i)

\* C12 witness: every item of a full run that had no explicit flush() call
\* was delivered, the last of them by a timer thread
C12_Witness ==
  /\ Len(S) = MaxItems
  /\ \A i \in 1..MaxItems : Delivered(i)
  /\ \A t \in FlushThreads : pc[t] = "idle"
  /\ \E k \in TimerIds :
       /\ pc[TimerThread(k)] = "in_process"
       /\ MaxItems \in Range(drained[TimerThread(k)])

InProcessFn(t) == pc[t] \in {"call_process", "in_process"}
Last(seq) == seq[Len(seq)]

\* C13: the batch a flush hands to process_fn is the snapshot taken by its
\* drain: it stays equal to the batch drained, whatever is enqueued while
\* process_fn runs; what is enqueued meanwhile stays pending, apart from
\* the batch, and goes to process_fn as a batch of its own, so that
\* enqueue [1], flush blocked in process_fn, enqueue [2], second flush gives
\* the two calls [1] then [2].
C13_DrainedBatchIsSnapshot ==
  /\ \A t \in Threads : InProcessFn(t) =>
       /\ \E i \in 1..Len(drainedLog) : drainedLog[i].items = drained[t]
       /\ Range(drained[t]) \cap Range(pending_items) = {}
       /\ \A u \in Threads \ {t} :
            InProcessFn(u) => Range(drained[t]) \cap Range(drained[u]) = {}
  /\ \A j \in 1..Len(processedLog) :
       \E i \in 1..Len(drainedLog) : drainedLog[i].items = processedLog[j]
  /\ ( /\ Len(processedLog) = 2
       /\ processedLog[1] = <<1>>
       /\ S = <<1, 2>>
       /\ pending_items = <<>> ) => processedLog = << <<1>>, <<2>> >>

\* C13 witness: the first flush is still inside process_fn with [1], item 2
\* was enqueued meanwhile and a second flush has handed [2] to process_fn
C13_Witness ==
  /\ processedLog = << <<1>>, <<2>> >>
  /\ \E t, u \in Threads :
       /\ t # u
       /\ pc[t] = "in_process" /\ drained[t] = <<1>>
       /\ pc[u] = "in_process" /\ drained[u] = <<2>>

\* C19: the context process_fn receives with a batch is the context of the
\* enqueue call that added the batch's last item, the most recent call
\* since the previous drain; while items are pending the stored context is
\* that of the latest call, and after a drain no context is left over.
C19_ContextLastWriteWins ==
  /\ Len(contextLog) = Len(processedLog)
  /\ \A j \in 1..Len(contextLog) : contextLog[j] = Last(processedLog[j])
  /\ \A t \in Threads :
       InProcessFn(t) => drainedContext[t] = Last(drained[t])
  /\ pending_items # <<>> => pending_context = Last(pending_items)
  /\ pending_items = <<>> => pending_context = NoContext

\* C19 witness: a batch built by more than one enqueue call (a call adds at
\* most two items) reached process_fn with the context of the last call
C19_Witness ==
  \E j \in 1..Len(processedLog) :
    /\ Len(processedLog[j]) >= 3
    /\ contextLog[j] = Last(processedLog[j])

\* C20: no exception of process_fn leaves flush(), on whatever thread; once
\* every call has returned and nothing was enqueued since the last drain
\* the engine holds no pending items, no first-enqueue time, no timer and
\* no context; and after a failure items are still delivered: pending items
\* always have a live timer or a thread about to drain them, and with
\* nothing pending and every call returned each item has been delivered.
C20_ProcessFailureContained ==
  /\ propagated = {}
  /\ (Quiescent /\ Concat(Batches) = S) =>
       /\ pending_items = <<>>
       /\ first_enqueue_time = NoTime
       /\ timer = NoTimer
       /\ pending_context = NoContext
  /\ raisedBatches # {} =>
       /\ ( /\ pending_items # <<>>
            /\ \A t \in Threads : ~inEnqueue[t] )
          => ( \/ LiveTimers # {}
               \/ \E t \in Threads : pc[t] = "flush_lock" )
       /\ (Quiescent /\ pending_items = <<>>) =>
            \A i \in Range(S) : Delivered(i)

\* C20 witness: process_fn raised on a timer thread, an item enqueued after
\* that batch was delivered by a later flush, and the engine is idle
C20_Witness ==
  /\ Quiescent
  /\ pending_items = <<>>
  /\ timer = NoTimer
  /\ \E r \in raisedBatches :
       /\ r[2] \in TimerThreads
       /\ \E j \in 1..Len(processedLog) : Head(processedLog[j]) > r[1]

(***************************************************************************)
(* Properties of FijiBatchProcessor                                        *)
(***************************************************************************)
\* C11: with batch_size=N, an add_items call that brings the pending count
\* to N or more never waits for the processor's own lock while it holds it,
\* and when add_items has returned fewer than N items are pending: the whole
\* batch was passed to _process_items_from_batch during the call.
C11_BatchSizeProcessedInCall ==
  /\ \A t \in FbpThreads :
       fbp_pc[t] = "process_lock" => fbp_lock # t
  /\ ( /\ fbp_batch_size # NoBatchSize
       /\ \A t \in AddThreads : fbp_pc[t] = "idle" )
     => Len(fbp_pending_items) < fbp_batch_size

\* C28: pending items are processed no later than max_debounce_wait_ms
\* after the first of them was added: items never sit in the pending list
\* for longer than that, and every batch is taken at most that long after
\* its first item.
C28_ProcessedWithinMaxWait ==
  fbp_first_item_time # NoTime =>
    fbp_now - fbp_first_item_time <= fbp_max_wait

(***************************************************************************)
(* Properties of the window projection and of the layer keys               *)
(***************************************************************************)
\* the components of component_order that have the mode, in order
ComponentsOfMode(mode) ==
  SelectSeq(component_order, LAMBDA c : component_modes[c] = mode)
HasAll(meta, comps) == Range(comps) \subseteq DOMAIN meta
\* "{name}_{value}" of every component of comps, joined with "_"
JoinedParts(comps, value(_)) ==
  JoinParts([i \in 1..Len(comps) |-> <<comps[i], "_">> \o value(comps[i])])
\* the window key made of the values as they are in the metadata
RawWindowKey(item) ==
  IF ComponentsOfMode("window") = <<>> THEN DefaultWindow
  ELSE JoinedParts(ComponentsOfMode("window"), LAMBDA c : item.metadata[c])
\* a ROI item with a synthetic source value, images_dir being given
IsSynthetic(value) ==
  ContainsStr(value, <<"_", "results">>) \/ ContainsStr(value, <<"/">>)
IsRewritten(item) ==
  /\ item.data_type = "rois"
  /\ images_dir # NoDir
  /\ "source" \in DOMAIN item.metadata
  /\ component_modes["source"] = "window"
  /\ IsSynthetic(item.metadata["source"])
\* the image item that has the leaf name of images_dir as its source
ImageOfLeaf(item) ==
  Image([item.metadata EXCEPT !["source"] = PathName(images_dir)])
InWindow(item, key) ==
  key \in DOMAIN g_windows /\ item \in Range(g_windows[key])

\* C14: once the modes are projected, the window lists partition the items
\* gone through: every list is the input restricted to its own members, in
\* input order, no item is in two lists and every item is in one; an item
\* that has all window-mode components (and whose values are not rewritten)
\* is under the key made of the "{name}_{value}" parts of the window-mode
\* components in component_order joined with "_", and under "default_window"
\* when no component has window mode.
C14_WindowsPartitionItems ==
  g_pc = "loop" =>
    /\ \A k \in DOMAIN g_windows :
         /\ g_windows[k] # <<>>
         /\ g_windows[k] =
              SelectSeq(g_items, LAMBDA it : it \in Range(g_windows[k]))
    /\ \A k1, k2 \in DOMAIN g_windows :
         k1 # k2 => Range(g_windows[k1]) \cap Range(g_windows[k2]) = {}
    /\ \A it \in Range(g_items) : \E k \in DOMAIN g_windows : InWindow(it, k)
    /\ \A it \in Range(g_items) :
         (HasAll(it.metadata, ComponentsOfMode("window")) /\ ~IsRewritten(it))
           => InWindow(it, RawWindowKey(it))
    /\ ComponentsOfMode("window") = <<>> =>
         \A it \in Range(g_items) : InWindow(it, DefaultWindow)

\* C14 witness: a batch of three items was split over two windows, one of
\* them keyed by two window-mode components and holding two items
C14_Witness ==
  /\ g_pc = "loop"
  /\ Len(g_items) = 3
  /\ Cardinality(DOMAIN g_windows) = 2
  /\ <<"well", "_", "A01", "_", "z", "_", "0">> \in DOMAIN g_windows
  /\ Len(g_windows[<<"well", "_", "A01", "_", "z", "_", "0">>]) = 2

\* scenario S1: well:window, channel:stack, z:slice and the three items
\* (A01,1,0), (A01,1,1), (A01,2,0)
S1Modes == ("well" :> "window") @@ ("channel" :> "stack") @@ ("z" :> "slice")
S1Items == << Image(WellMeta(<<"A01">>, <<"1">>, <<"0">>)),
              Image(WellMeta(<<"A01">>, <<"1">>, <<"1">>)),
              Image(WellMeta(<<"A01">>, <<"2">>, <<"0">>)) >>

\* C15: group_items_by_component_modes never fails on modes drawn from
\* {window, slice, stack, channel, frame}, and with the modes of scenario S1
\* it goes on to group: the three items of well A01 end under the one key
\* "well_A01".
C15_AcceptsEveryMode ==
  /\ g_pc # "raised"
  /\ (component_order = OrderWell /\ component_modes = S1Modes
      /\ g_pc # "start")
       => /\ g_pc = "loop"
          /\ g_items = S1Items =>
               /\ DOMAIN g_windows = {<<"well", "_", "A01">>}
               /\ g_windows[<<"well", "_", "A01">>] = S1Items

\* C16: a ROI item whose window-mode source value is synthetic is, when
\* images_dir is given, under the key of the image item that has the leaf
\* name of images_dir as its source ("/tmp/foo_results" with
\* "/my/plate/images" gives "source_images"); every other item that has all
\* window-mode components is under the key made of its values as they are.
C16_RoiSourceFollowsImagesDir ==
  g_pc = "loop" =>
    \A it \in Range(g_items) :
      HasAll(it.metadata, ComponentsOfMode("window")) =>
        /\ IsRewritten(it) =>
             /\ InWindow(it, RawWindowKey(ImageOfLeaf(it)))
             /\ ( /\ images_dir = <<"/", "my", "/", "plate", "/", "images">>
                  /\ ComponentsOfMode("window") = <<"source">> )
                  => InWindow(it, <<"source", "_", "images">>)
        /\ ~IsRewritten(it) => InWindow(it, RawWindowKey(it))

\* C16 witness: with images_dir "/my/plate/images" the ROI item of source
\* "/tmp/foo_results" and the image item of source "images" share the window
\* "source_images", and the image item of that synthetic source has a window
\* of its own
C16_Witness ==
  /\ g_pc = "loop"
  /\ images_dir = <<"/", "my", "/", "plate", "/", "images">>
  /\ InWindow(Rois(SourceMeta(SyntheticSource)), <<"source", "_", "images">>)
  /\ InWindow(Image(SourceMeta(<<"images">>)), <<"source", "_", "images">>)
  /\ InWindow(Image(SourceMeta(SyntheticSource)),
              <<"source", "_">> \o SyntheticSource)

\* the suffix of a layer key, per payload type
SuffixOf(data_type) ==
  CASE data_type = "SHAPES" -> <<"_", "shapes">>
    [] data_type = "POINTS" -> <<"_", "points">>
    [] OTHER -> <<>>
KeysDiffer ==
  \A d1, d2 \in DOMAIN layer_keys : d1 # d2 => layer_keys[d1] # layer_keys[d2]
\* the slice-mode components, and those of them component_info has
SliceComponents == ComponentsOfMode("slice")
SliceComponentsPresent ==
  SelectSeq(component_order,
            LAMBDA c : component_modes[c] = "slice" /\ c \in DOMAIN component_info)

ValueOrZero(item, c) ==
  IF c \in DOMAIN item.metadata
    THEN Normalizer(c, item.metadata[c], item, images_dir)
    ELSE <<"0">>

\* C18: an item is under the window key that has a part for every
\* window-mode component, "{name}_0" for a component its metadata lacks.
C18_MissingComponentIsZero ==
  g_pc = "loop" =>
    \A it \in Range(g_items) :
      ComponentsOfMode("window") # <<>> =>
        InWindow(it, JoinedParts(ComponentsOfMode("window"),
                                 LAMBDA c : ValueOrZero(it, c)))

(***************************************************************************)
(* Properties of the streaming backends                                    *)
(***************************************************************************)
CreatedBuffers == {b \in BufferIds : shmName[b] # "none"}
\* the producer is done for good and every message was consumed
BackendFinal == cleaned /\ ppc = "idle" /\ mq = <<>>

\* C2: every shared buffer is unlinked exactly once in total, by the
\* producer when the receiver never got its batch and by the receiver
\* otherwise (judged when cleanup() has run and no message is in flight).
C2_UnlinkedExactlyOnce ==
  BackendFinal =>
    \A b \in CreatedBuffers :
      /\ prodUnlinks[b] + recvUnlinks[b] = 1
      /\ b \in receivedItems => recvUnlinks[b] = 1
      /\ b \notin receivedItems => prodUnlinks[b] = 1

\* C3: every id of a batch handed to the transport has been given to
\* register_sent, and no mark_ack runs before the id's register_sent.
C3_RegisteredBeforeSend ==
  /\ sentItems \subseteq registered
  /\ ackedUnregistered = {}

\* C8: when save_batch ends with an exception, every buffer the call
\* created is closed, unlinked and out of the tracking map.
C8_FailureLeavesNoBuffer ==
  (ppc = "idle" /\ outcome = "raised") =>
    \A b \in callBuffers :
      /\ shmName[b] = "unlinked"
      /\ prodHandle[b] = "closed"
      /\ b \notin shared_memory_blocks

C10_NoUnlinkAfterSend ==
  \A b \in sentItems : prodUnlinks[b] = 0

\* C22: a save_batch call with an empty data_list is a no-op: on a fresh
\* backend it creates no transport context and no publisher, allocates no
\* buffer, hands no message to the transport and registers no item.
C22_EmptyBatchIsNoOp ==
  (calls = 1 /\ nItems = 0) =>
    /\ \A c \in ContextIds : contexts[c] = "none"
    /\ \A k \in SocketIds : socketState[k] = "none"
    /\ \A d \in Dests : publishers[d] = NoSocket
    /\ CreatedBuffers = {}
    /\ mq = <<>>
    /\ ppc \notin {"register", "close"}
    /\ outcome # "ok"
    /\ registered = {}

\* C23: a batch dropped because the outbound queue was full is reported to
\* the caller: what save_batch gives back after a Busy drop differs from the
\* None it gives back after a batch that was sent.
C23_BusyIsSurfaced ==
  (ppc = "idle" /\ outcome = "busy") =>
    /\ returned # "none"
    /\ returned # "None"

\* C24: after a save_batch that ended with a Busy drop or with a transport
\* failure the backend can still send: until cleanup() the open publisher of
\* the destination is in the pool, and no buffer the failed call created is
\* in the tracking map.
C24_FailedBatchLeavesBackendUsable ==
  (ppc = "idle" /\ (outcome = "busy" \/ returned = "transport error")) =>
    /\ ~cleaned =>
         /\ publishers[dest] # NoSocket
         /\ socketState[publishers[dest]] = "open"
    /\ callBuffers \cap shared_memory_blocks = {}

\* C26: after cleanup() the backend holds no resource, also when closing
\* one of the resources failed: the tracking map, the publisher pool and the
\* context reference are empty, and no buffer the producer still tracked (a
\* buffer that was created and never handed to the transport) keeps its
\* name.
C26_CleanupLeavesNothing ==
  cleaned =>
    /\ shared_memory_blocks = {}
    /\ \A d \in Dests : publishers[d] = NoSocket
    /\ zmq_context = NoZmqContext
    /\ \A b \in CreatedBuffers \ sentItems : shmName[b] = "unlinked"

\* sockets that exist and were not closed
OpenSockets == {k \in SocketIds : socketState[k] = "open"}

\* C25: however many producer threads call save_batch, at most one publisher
\* socket exists per destination, and every socket a finished _get_publisher
\* created is the pooled one of its destination, which cleanup() will close
\* (judged before cleanup() runs).
C25_OnePublisherPerDestination ==
  ~cleaned =>
    /\ \A k, m \in OpenSockets : socketDest[k] = socketDest[m] => k = m
    /\ \A k \in OpenSockets :
         \/ publishers[socketDest[k]] = k
         \/ \E t \in ProducerThreads :
              gp_pc[t] = "insert" /\ gp_publisher[t] = k

\* C27: a NapariBatchProcessor created with batch_size=N displays every N
\* items: once an add_items call has returned, fewer than N items are
\* pending (N pending items were passed on by the call, not left to the
\* debounce timer).
C27_BatchSizeDisplaysEveryN ==
  (nbp_batch_size # NoBatchSize /\ \A t \in EnqueueThreads : pc[t] = "idle")
    => Len(pending_items) < nbp_batch_size

(***************************************************************************)
(* Properties of the consumers of a display config                         *)
(***************************************************************************)
\* the keys of component_modes are exactly the names of component_order
ConfigValid == DOMAIN component_modes = Range(component_order)

\* C29: a config whose component_modes lacks a name of component_order, or
\* has a key that is not in component_order, is accepted by no consumer:
\* group_items_by_component_modes does not go on to group, build_layer_key
\* returns no key and get_by_mode returns no list.
C29_InvalidConfigRejected ==
  ~ConfigValid =>
    /\ g_pc # "loop"
    /\ cfg_layer_key # "returned"
    /\ cfg_get_by_mode[1] # "returned"

\* C30: collect_values(names) returns the distinct value tuples of the
\* items, each once and in ascending order, whatever the order of the items,
\* for items whose values are ints or strs, missing components counting as
\* 0: it does not raise, the tuples returned are those of the items, and
\* each is less than the next.
C30_CollectValuesSortedDistinct ==
  acc_result # <<"none">> =>
    /\ acc_result[1] = "returned"
    /\ LET result == acc_result[2]
       IN /\ Range(result) = ValuesSet(acc_items, acc_names)
          /\ Len(result) = Cardinality(ValuesSet(acc_items, acc_names))
          /\ \A i \in 1..Len(result) : \A j \in (i + 1)..Len(result) :
               TupleLess(result[i], result[j])

\* where a name stands in component_order
IndexIn(order, c) == CHOOSE i \in 1..Len(order) : order[i] = c

\* C31: building a GenericComponentAccessor from a display config without
\* component_modes or without component_order ends in an error, and no
\* get_by_mode result exists for it; with both keys it is built, and
\* get_by_mode(mode) gives back the names of component_order whose mode is
\* `mode`, each once, in the order of component_order.
C31_AccessorNeedsBothFields ==
  /\ (accessor # "none" /\ cfg_fields # ConfigFields) =>
       /\ accessor = "ValueError"
       /\ cfg_get_by_mode = <<"none">>
  /\ (accessor # "none" /\ cfg_fields = ConfigFields) => accessor = "built"
  /\ cfg_get_by_mode[1] = "returned" =>
       LET names == cfg_get_by_mode[2]
           mode == cfg_get_by_mode[3]
       IN /\ accessor = "built"
          /\ Range(names) =
               {c \in Range(component_order) \cap DOMAIN component_modes :
                  component_modes[c] = mode}
          /\ \A i \in 1..Len(names) : \A j \in (i + 1)..Len(names) :
               IndexIn(component_order, names[i])
                 < IndexIn(component_order, names[j])

\* a construction failed on a dict that has component_order only
C31_Witness ==
  /\ accessor = "ValueError"
  /\ cfg_fields = {"component_order"}

\* C32: a call of group_items_by_component_modes whose items,
\* component_modes, component_order and images_dir equal those of the first
\* call returns the windows (keys, items and their order) and the fixed
\* labels the first call returned, whatever calls were made in between.
C32_SameInputsSameGrouping ==
  (/\ g_pc = "returned"
   /\ g_first # << >>
   /\ g_first[1].order = component_order
   /\ g_first[1].modes = component_modes
   /\ g_first[1].dir = images_dir
   /\ g_first[1].items = g_items)
    => /\ g_windows = g_first[1].windows
       /\ g_labels = g_first[1].labels

\* the third call returned, with the arguments of the first: three items
\* in two windows
C32_Witness ==
  /\ g_pc = "returned"
  /\ g_ncalls = 3
  /\ g_first[1].order = component_order
  /\ g_first[1].modes = component_modes
  /\ g_first[1].dir = images_dir
  /\ g_first[1].items = g_items
  /\ Len(g_items) = 3
  /\ Cardinality(DOMAIN g_windows) = 2

\* two component infos have the same slice-mode components, with the same
\* values
SameSliceInfo(a, b) ==
  \A c \in Range(component_order) :
    component_modes[c] = "slice" =>
      /\ (c \in DOMAIN a) = (c \in DOMAIN b)
      /\ c \in DOMAIN a => a[c] = b[c]

\* C33: build_layer_key run once more with the same component_modes,
\* component_order and payload type returns the key it returned before, on
\* the same component info and on a component info that differs from it
\* only in components that are not slice-mode (present, absent or with
\* another value).
C33_ReprojectionIsNoOp ==
  (layer_key_again # << >>
     /\ SameSliceInfo(layer_key_again[1], component_info))
    => layer_key_again[3] = layer_keys[layer_key_again[2]]

\* the key of a component info with a z was built, and built again on a
\* component info with another channel, channel not being slice-mode
\* while z is
C33_Witness ==
  /\ component_order = OrderWell
  /\ component_modes["z"] = "slice"
  /\ component_modes["channel"] = "stack"
  /\ layer_key_again # << >>
  /\ layer_key_again[1] # component_info
  /\ "z" \in DOMAIN component_info
  /\ SameSliceInfo(layer_key_again[1], component_info)

(***************************************************************************)
(* Properties of the arguments of save_batch                               *)
(***************************************************************************)
\* C34: the display_config of every batch message has a component_modes
\* entry for every name of its component_order.
C34_MessageModesCoverOrder ==
  message # NoMessage =>
    Range(message[1].component_order) \subseteq DOMAIN message[1].component_modes

\* the arguments of the call in progress, or of the last call, are rejected
InputRejected == ~lengths_match \/ kwargs # KwargNames

\* C35: a save_batch call whose arguments are rejected (lists of different
\* length, or no port, display_config or microscope_handler among the
\* kwargs) ends with the error, and has created no buffer, built or sent
\* no message and registered no item: the step of the call leaves the
\* tracking map, the buffers, the registered ids and the messages sent as
\* they were, and the call does not go on.
C35_RejectedInputChangesNothing ==
  /\ [](InputRejected =>
         /\ ppc = "idle"
         /\ returned = "input error"
         /\ callBuffers = {}
         /\ message = NoMessage)
  /\ [][(calls' = calls + 1 /\ InputRejected') =>
          /\ shared_memory_blocks' = shared_memory_blocks
          /\ shmName' = shmName
          /\ nextId' = nextId
          /\ registered' = registered
          /\ sentItems' = sentItems
          /\ mq' = mq]_vars

\* a call without display_config was rejected while the tracking map held
\* the buffers of an earlier batch
C35_Witness ==
  /\ calls = 2
  /\ "display_config" \notin kwargs
  /\ returned = "input error"
  /\ shared_memory_blocks # {}

(***************************************************************************)
(* Properties of FijiROIHandler.handle                                     *)
(***************************************************************************)
\* how often an image id was given to _send_ack
AckCount(id) == Cardinality({k \in 1..Len(roi_acks) : roi_acks[k] = id})

\* C36: no item is acked twice, and when handle has gone through the items
\* every item that carries an image id was acked exactly once, whether its
\* ROI list is empty or not.
C36_EveryRoiItemAckedOnce ==
  /\ \A i \in 1..Len(roi_items) : AckCount(i) <= 1
  /\ roi_pc = "done" =>
       \A i \in 1..Len(roi_items) :
         roi_items[i].image_id # NoImageId => AckCount(i) = 1

(***************************************************************************)
(* Properties of the engine: debounce and the order of the batches         *)
(***************************************************************************)
\* C37: a batch drained by a timer thread (neither an explicit flush() nor
\* the flush of an enqueue that found max_wait elapsed) is drained no
\* earlier than debounce_delay after the most recent enqueue, unless
\* max_wait has elapsed since the first pending enqueue.
C37_DebounceRestartedByEnqueue ==
  \A i \in 1..Len(drainedLog) :
    drainedLog[i].thread \in TimerThreads =>
      \/ drainedLog[i].wait >= debounce_delay
      \/ drainedLog[i].age >= max_wait

\* C38: at most one thread is inside process_fn, and the batches are
\* handed to process_fn in the order in which they were drained.
C38_ProcessFnSerialized ==
  /\ Cardinality({t \in Threads : pc[t] = "in_process"}) <= 1
  /\ Len(processedLog) <= Len(drainedLog)
  /\ \A j \in 1..Len(processedLog) : processedLog[j] = drainedLog[j].items

(***************************************************************************)
(* Properties of the registration with the queue tracker                   *)
(***************************************************************************)
\* the last save_batch ended with a dropped batch or a failed send
SendFailed ==
  ppc = "idle" /\ (outcome = "busy" \/ returned = "transport error")

\* C39: no item of a batch that was dropped (Busy) or whose send failed is
\* registered with the queue tracker: the ids of the batch are new with the
\* call, so the registered ids, and with them the outstanding ones, are
\* those from before the call.
C39_FailedSendRegistersNothing ==
  SendFailed => Range(image_ids) \cap registered = {}

\* a batch of the largest size was dropped after the items of an earlier
\* batch had been registered
C39_Witness ==
  /\ ppc = "idle"
  /\ outcome = "busy"
  /\ Len(image_ids) = LargestBatch
  /\ registered # {}

(***************************************************************************)
(* Properties of the fixed labels of the windows                           *)
(***************************************************************************)
\* C40: windows and fixed_window_labels have the same keys, and every item
\* of a window has the (component, value) labels recorded for the window's
\* key, so that items with different labels are never under one key.
C40_WindowItemsShareLabels ==
  g_pc = "loop" =>
    /\ DOMAIN g_windows = DOMAIN g_labels
    /\ \A k \in DOMAIN g_windows : \A i \in 1..Len(g_windows[k]) :
         FixedLabels(g_windows[k][i], g_result["window"], images_dir)
           = g_labels[k]

====
